---- MODULE Spec2Model ----
(***************************************************************************)
(* A model of the SENSAI server code: the retry helper around the AI call, *)
(* the server actions (profile update, dashboard insights, resume, quiz)   *)
(* and the scheduled insight refresh job.                                  *)
(***************************************************************************)
EXTENDS Integers, Sequences, FiniteSets, TLC

(***************************************************************************)
(* Bounds of the model.                                                    *)
(***************************************************************************)
\* largest maxRetries argument tried (the call sites pass 5)
MaxAttemptsBound == 5
\* Math.random() is drawn from k / RandomGrain, k in 0 .. RandomGrain-1
RandomGrain == 2
\* requests in flight at the same time
NumSlots == 2
\* rows of table Assessment
MaxAssessments == 1
\* identities the identity provider knows
NumUsers == 1
\* industries a profile may name
NumIndustries == 2
\* milliseconds that may pass between two readings of the clock
MaxElapsedMs == 1

(***************************************************************************)
(* Program constants.                                                      *)
(***************************************************************************)
\* retryWithBackoff(..., 5, 1000, 1200) at the call sites
CallSiteRetries == 5
InitialDelayMs == 1000
MaxJitterMs == 1200
\* 7 * 24 * 60 * 60 * 1000
WeekMs == 7 * 24 * 60 * 60 * 1000

VARIABLES
    \* ---- retryWithBackoff: one call of the helper
    rPc,        \* "idle" | "loop" | "call" | "wait" | "returned" | "thrown"
    maxRetries, \* the maxRetries argument
    attempt,    \* the loop variable
    lastError,  \* the variable lastError (NoError: undefined)
    thrown,     \* the error the helper raised (NoError: none)
    returned,   \* the value the helper returned (NoValue: none)
    calls,      \* how many times fn was invoked
    waits,      \* how many times the delay wait was started
    lastDelay,  \* delayMs of the latest wait
    rHist,      \* the outcome of each invocation of fn, in order
    \* ---- storage
    users,      \* table User: the rows in insertion order, id = position
    insights,   \* table IndustryInsight: the rows in insertion order
    resumes,    \* table Resume: the rows in insertion order
    assessments,\* table Assessment: the rows in insertion order
    \* ---- server actions
    req,        \* per slot: the request being served and its position
    \* ---- the scheduled job generateIndustryInsights
    job,        \* the run: position, fetched industries, loop index, log
    \* ---- the surroundings of one run of the system, never changed by it
    env         \* answers: the JSON objects the AI answers with; elapsed: the
                \* milliseconds that may pass between two readings of the clock

retryVars == <<rPc, maxRetries, attempt, lastError, thrown, returned, calls, waits, lastDelay, rHist>>
quizVars == <<resumes, assessments>>
appVars == <<users, insights, resumes, assessments, req, job, env>>

vars == <<rPc, maxRetries, attempt, lastError, thrown, returned, calls, waits, lastDelay, rHist,
          users, insights, resumes, assessments, req, job, env>>

(***************************************************************************)
(* Error messages.  A message is a sequence of fragments; toLowerCase maps *)
(* each fragment to its lower-case form and includes(t) finds t among the  *)
(* lower-cased fragments.                                                  *)
(***************************************************************************)
NoError == <<"undefined">>
NoValue == <<"none">>
\* the values fn may resolve to
FnValues == { <<"response A">>, <<"response B">> }
\* one invocation of fn: fulfilled with a value, or rejected with a message
Fulfilled(v) == [ok |-> TRUE, data |-> v]
Rejected(m) == [ok |-> FALSE, data |-> m]

toLowerCase(s) ==
    CASE s = "Overloaded" -> "overloaded"
      [] s = "TIMEOUT" -> "timeout"
      [] s = "Service Unavailable" -> "service unavailable"
      [] s = "The model is" -> "the model is"
      [] s = "API key not valid" -> "api key not valid"
      [] OTHER -> s

includes(msg, token) == \E i \in DOMAIN msg : msg[i] = token

\* the messages fn may fail with; <<>> is an error without a message
ErrorMessages ==
    { <<"503">>, <<"The model is", "Overloaded">>, <<"429">>, <<"TIMEOUT">>,
      <<"Service Unavailable">>, <<"API key not valid">>, <<>> }

\* const msg = String(error?.message || "").toLowerCase(); const isRetryable = ...
isRetryableNoLowerCase(message) ==
    \/ includes(message, "503")
    \/ includes(message, "overloaded")
    \/ includes(message, "429")
    \/ includes(message, "timeout")
    \/ includes(message, "service unavailable")

isRetryable(message) ==
    LET msg == [i \in DOMAIN message |-> toLowerCase(message[i])]
    IN  \/ includes(msg, "503")
        \/ includes(msg, "overloaded")
        \/ includes(msg, "429")
        \/ includes(msg, "timeout")
        \/ includes(msg, "service unavailable")

\* Math.floor(Math.random() * maxJitterMs), Math.random() = k / RandomGrain
Jitter(k, maxJitterMs) == (k * maxJitterMs) \div RandomGrain

\* const baseDelay = initialDelayMs * Math.pow(2, attempt)
BaseDelayLinear(initialDelayMs, n) == initialDelayMs * (n + 1)
BaseDelay(initialDelayMs, n) == initialDelayMs * (2 ^ n)

(***************************************************************************)
(* retryWithBackoff(fn, maxRetries, initialDelayMs, maxJitterMs)           *)
(***************************************************************************)
RetryInit ==
    /\ rPc = "idle"
    /\ maxRetries = 0
    /\ attempt = 0
    /\ lastError = NoError
    /\ thrown = NoError
    /\ returned = NoValue
    /\ calls = 0
    /\ waits = 0
    /\ lastDelay = 0
    /\ rHist = <<>>

\* the call: let lastError; attempt = 0
RetryStart ==
    /\ rPc = "idle"
    /\ \E m \in 0 .. MaxAttemptsBound : maxRetries' = m
    /\ rPc' = "loop"
    /\ UNCHANGED <<attempt, lastError, thrown, returned, calls, waits, lastDelay, rHist, appVars>>

\* for (...; attempt < maxRetries; ...) and, after the loop, throw lastError
RetryLoop ==
    /\ rPc = "loop"
    /\ IF attempt < maxRetries
         THEN rPc' = "call" /\ UNCHANGED thrown
         ELSE rPc' = "thrown" /\ thrown' = lastError
    /\ UNCHANGED <<maxRetries, attempt, lastError, returned, calls, waits, lastDelay, rHist, appVars>>

\* return await fn(), fn fulfilled
RetryFnReturns ==
    /\ rPc = "call"
    /\ \E v \in FnValues :
        /\ rHist' = Append(rHist, Fulfilled(v))
        /\ returned' = v
    /\ calls' = calls + 1
    /\ rPc' = "returned"
    /\ UNCHANGED <<maxRetries, attempt, lastError, thrown, waits, lastDelay, appVars>>

\* if (!isRetryable || attempt === maxRetries - 1) throw error
GivesUpIgnoresClass(message, att, max) == att = max - 1
GivesUpOffByOne(message, att, max) == ~isRetryable(message) \/ att = max
GivesUp(message, att, max) == ~isRetryable(message) \/ att = max - 1

\* return await fn(), fn rejected: the catch block
RetryFnThrows ==
    /\ rPc = "call"
    /\ \E error \in ErrorMessages, k \in 0 .. RandomGrain - 1 :
        /\ calls' = calls + 1
        /\ rHist' = Append(rHist, Rejected(error))
        /\ lastError' = error
        /\ IF GivesUp(error, attempt, maxRetries)
             THEN /\ rPc' = "thrown"
                  /\ thrown' = error
                  /\ UNCHANGED <<waits, lastDelay>>
             ELSE /\ rPc' = "wait"
                  /\ lastDelay' = BaseDelay(InitialDelayMs, attempt) + Jitter(k, MaxJitterMs)
                  /\ waits' = waits + 1
                  /\ UNCHANGED thrown
    /\ UNCHANGED <<maxRetries, attempt, returned, appVars>>

\* the timer of await new Promise(setTimeout) fires; attempt++
RetryDelayElapsed ==
    /\ rPc = "wait"
    /\ attempt' = attempt + 1
    /\ rPc' = "loop"
    /\ UNCHANGED <<maxRetries, lastError, thrown, returned, calls, waits, lastDelay, rHist, appVars>>

RetryNext ==
    \/ RetryStart
    \/ RetryLoop
    \/ RetryFnReturns
    \/ RetryFnThrows
    \/ RetryDelayElapsed


(***************************************************************************)
(* Storage: the tables User and IndustryInsight.                           *)
(***************************************************************************)
ClerkNames == <<"user_1", "user_2", "user_3", "user_4">>
IndustryNames == <<"tech", "finance", "healthcare", "retail">>
ClerkIds == {ClerkNames[i] : i \in 1 .. NumUsers}
Industries == {IndustryNames[i] : i \in 1 .. NumIndustries}
Slots == 1 .. NumSlots
\* auth() without a session: userId is null
NoId == "null"
\* User.industry before onboarding: null
NoIndustry == ""

\* a User row; viaUpdate records that updateUser wrote the industry
NewUserOnboarded(clerkUserId) ==
    [clerkUserId |-> clerkUserId, industry |-> "tech", profile |-> "", viaUpdate |-> FALSE]
NewUser(clerkUserId) ==
    [clerkUserId |-> clerkUserId, industry |-> NoIndustry, profile |-> "", viaUpdate |-> FALSE]

\* db.user.findUnique({ where: { clerkUserId } }): the row's id, 0 for null
FindUserByClerkId(rows, clerkUserId) ==
    IF \E i \in DOMAIN rows : rows[i].clerkUserId = clerkUserId
      THEN CHOOSE i \in DOMAIN rows : rows[i].clerkUserId = clerkUserId
      ELSE 0

\* the reading of the clock at the first new Date() / Date.now() of a write;
\* the readings after it add the milliseconds elapsed
Now == 0

\* db.industryInsight.findUnique({ where: { industry } }): the position, 0 for null
FindInsightUnlessStale(rows, industry) ==
    IF \E i \in DOMAIN rows : rows[i].industry = industry /\ rows[i].fields.nextUpdate >= Now
      THEN CHOOSE i \in DOMAIN rows : rows[i].industry = industry
      ELSE 0
FindInsight(rows, industry) ==
    IF \E i \in DOMAIN rows : rows[i].industry = industry
      THEN CHOOSE i \in DOMAIN rows : rows[i].industry = industry
      ELSE 0

\* the unique constraint on IndustryInsight.industry: a create of a present key
\* is refused with error code P2002
UniqueViolationUnchecked(rows, industry) == FALSE
UniqueViolation(rows, industry) == FindInsight(rows, industry) # 0

\* an array of n entries
List(n, entry) == [i \in 1 .. n |-> entry]
\* { ...base, ...over }
Spread(base, over) ==
    [k \in DOMAIN base \cup DOMAIN over |-> IF k \in DOMAIN over THEN over[k] ELSE base[k]]
\* an object without the keys named
Without(object, keys) == [k \in DOMAIN object \ keys |-> object[k]]
\* no insights at hand
NoFields == [none |-> TRUE]

\* the columns demandLevel and marketOutlook are enumerations: a write of
\* another value is refused
DemandLevels == {"HIGH", "MEDIUM", "LOW"}
MarketOutlooks == {"POSITIVE", "NEUTRAL", "NEGATIVE"}
EnumViolationUnchecked(data) == FALSE
EnumViolation(data) ==
    \/ "demandLevel" \in DOMAIN data /\ data.demandLevel \notin DemandLevels
    \/ "marketOutlook" \in DOMAIN data /\ data.marketOutlook \notin MarketOutlooks

\* data: { industry, ...insights, nextUpdate: new Date(Date.now() + 7 * 24 * 60 * 60 * 1000) }
CreateData(parsed, now) == Spread(parsed, [nextUpdate |-> now + WeekMs])

\* what a create stores in the columns its data leaves out: a list column
\* is empty, lastUpdated is the clock of the storage at the insert
ColumnDefaults(storageNow) ==
    [salaryRanges |-> <<>>, topSkills |-> <<>>, keyTrends |-> <<>>,
     recommendedSkills |-> <<>>, lastUpdated |-> storageNow]

\* data: { ...insights, lastUpdated: new Date(), nextUpdate: new Date(Date.now() + 7 * 24 * 60 * 60 * 1000) }
UpdateData(parsed, first, second) ==
    Spread(parsed, [lastUpdated |-> first, nextUpdate |-> second + WeekMs])

\* db.industryInsight.create({ data }); insightData.data tells where the
\* insights come from, insightData.fields are the columns
InsightCreate(rows, industry, insightData) ==
    Append(rows, [industry |-> industry, data |-> insightData.data,
                  fields |-> insightData.fields])

\* db.industryInsight.update({ where: { industry }, data }): only an existing
\* row is written, in the columns data names; a missing row is error P2025
\* and nothing is stored
InsightUpdateUpserts(rows, industry, insightData) ==
    IF FindInsight(rows, industry) = 0
      THEN Append(rows, [industry |-> industry, data |-> insightData.data,
                         fields |-> insightData.fields])
      ELSE [rows EXCEPT ![FindInsight(rows, industry)] =
                [@ EXCEPT !.data = insightData.data,
                          !.fields = Spread(@, insightData.fields)]]
InsightUpdate(rows, industry, insightData) ==
    IF FindInsight(rows, industry) = 0
      THEN rows
      ELSE [rows EXCEPT ![FindInsight(rows, industry)] =
                [@ EXCEPT !.data = insightData.data,
                          !.fields = Spread(@, insightData.fields)]]

\* a storage call either succeeds or raises
StorageOutcomes == {"ok", "error"}
StorageError == <<"StorageError">>
\* the error of a write whose data the storage refuses
ValidationError == <<"PrismaClientValidationError">>
\* the error of a failed tx.user.update
UserUpdateError == <<"StorageError", "user.update">>

(***************************************************************************)
(* The AI call and generateAIInsights.                                     *)
(***************************************************************************)
\* the JSON object the prompt asks for
WellFormed ==
    [salaryRanges |-> List(5, "range"), growthRate |-> 7, demandLevel |-> "HIGH",
     topSkills |-> List(5, "skill"), marketOutlook |-> "POSITIVE",
     keyTrends |-> List(5, "trend"), recommendedSkills |-> List(5, "skill")]

\* JSON objects the AI may answer with: the one asked for, one with the
\* enumeration values in lower case, one with too few salary ranges, one
\* without demandLevel and keyTrends, one with a demand level of its own
AiPayloads ==
    { WellFormed,
      [WellFormed EXCEPT !.demandLevel = "high", !.marketOutlook = "positive"],
      [WellFormed EXCEPT !.salaryRanges = List(2, "range")],
      Without(WellFormed, {"demandLevel", "keyTrends"}),
      [WellFormed EXCEPT !.demandLevel = "Very High"] }

\* what model.generateContent(prompt) may do: answer with JSON text, answer
\* with text that is no JSON, resolve to nothing, or reject with a message
AiOutcomes ==
    { [kind |-> "json", msg |-> <<>>, body |-> b] : b \in env.answers }
    \cup
    { [kind |-> "garbage", msg |-> <<>>, body |-> NoFields],
      [kind |-> "absent", msg |-> <<>>, body |-> NoFields],
      [kind |-> "rejected", msg |-> <<"503">>, body |-> NoFields],
      [kind |-> "rejected", msg |-> <<"API key not valid">>, body |-> NoFields] }

toUpperCase(s) ==
    CASE s = "high" -> "HIGH"
      [] s = "positive" -> "POSITIVE"
      [] s = "Very High" -> "VERY HIGH"
      [] OTHER -> s

\* insights.demandLevel = insights.demandLevel?.toUpperCase() || "MEDIUM";
\* insights.marketOutlook = insights.marketOutlook?.toUpperCase() || "NEUTRAL"
NormalizeOnDemand(parsed) ==
    Spread(parsed,
        [demandLevel |-> IF "demandLevel" \in DOMAIN parsed /\ parsed.demandLevel # ""
                           THEN toUpperCase(parsed.demandLevel) ELSE "MEDIUM",
         marketOutlook |-> IF "marketOutlook" \in DOMAIN parsed /\ parsed.marketOutlook # ""
                             THEN toUpperCase(parsed.marketOutlook) ELSE "NEUTRAL"])

\* if (insights.demandLevel) insights.demandLevel = String(insights.demandLevel).toUpperCase();
\* if (insights.marketOutlook) insights.marketOutlook = String(insights.marketOutlook).toUpperCase()
NormalizeInJobWithDefaults(parsed) == NormalizeOnDemand(parsed)
NormalizeInJob(parsed) ==
    [k \in DOMAIN parsed |->
        IF k \in {"demandLevel", "marketOutlook"} /\ parsed[k] # ""
          THEN toUpperCase(parsed[k])
          ELSE parsed[k]]

\* generateAIInsights(industry): one generateContent call, then JSON.parse
\* and the normalisation; every failure is raised to the caller
generateAIInsightsDefaults(outcome) ==
    [ok |-> TRUE, payload |-> "generated",
     fields |-> NormalizeOnDemand(IF outcome.kind = "json" THEN outcome.body
                                  ELSE Without(WellFormed, {"demandLevel", "marketOutlook"})),
     error |-> <<>>, aiCalls |-> 1]
generateAIInsights(outcome) ==
    CASE outcome.kind = "json" ->
            [ok |-> TRUE, payload |-> "generated", fields |-> NormalizeOnDemand(outcome.body),
             error |-> <<>>, aiCalls |-> 1]
      [] outcome.kind = "garbage" ->
            [ok |-> FALSE, payload |-> "", fields |-> NoFields,
             error |-> <<"SyntaxError">>, aiCalls |-> 1]
      [] outcome.kind = "absent" ->
            [ok |-> FALSE, payload |-> "", fields |-> NoFields,
             error |-> <<"TypeError">>, aiCalls |-> 1]
      [] OTHER ->
            [ok |-> FALSE, payload |-> "", fields |-> NoFields,
             error |-> outcome.msg, aiCalls |-> 1]

(***************************************************************************)
(* Server actions.  A slot serves one request at a time.                   *)
(***************************************************************************)
\* op, pc: the action and its position; uid: auth()'s userId; industry: the
\* industry the action works on; user: the id of the User row found; wrote:
\* the transaction holds an uncommitted insight row; payload: the generated
\* insights; result: "ok" or the message of the error raised, cause: the
\* error it wraps or passes on; value: what was returned; db, ai: storage was
\* touched, AI calls made; input: the argument of the action; lost: a create was refused by the unique constraint;
\* current: the text handed to improveWithAI, text: the text it returned;
\* caught: the error a catch block handled without raising it; questions:
\* the correct answer of every question, answers: the user's answers;
\* lostUser: the create of the User row just attempted was refused by the
\* unique constraint;
\* fields: the columns of the generated insights
\* a property of the AI response that is undefined
NoText == <<"undefined">>
\* const response = res?.response ?? res, when it is null or undefined
NoResponse ==
    [present |-> FALSE, text |-> NoText, cand |-> FALSE, parts |-> NoText,
     content |-> NoText, output |-> NoText]

Idle ==
    [op |-> "idle", pc |-> "idle", uid |-> NoId, industry |-> NoIndustry, user |-> 0,
     input |-> "", wrote |-> FALSE, payload |-> "", result |-> "", cause |-> <<>>,
     value |-> "", current |-> <<>>, text |-> <<>>, caught |-> NoError,
     questions |-> <<>>, answers |-> <<>>, lostUser |-> FALSE, fields |-> NoFields,
     db |-> FALSE, ai |-> 0, lost |-> FALSE, response |-> NoResponse,
     route |-> ""]

\* if (!userId) throw new Error("Unauthorized")
UnauthorizedNeverRaised(userId) == FALSE
Unauthorized(userId) == userId = NoId

\* the request ends raising `result`, caused by `cause`
Fail(q, result, cause) ==
    [q EXCEPT !.pc = "done", !.result = result, !.cause = cause, !.wrote = FALSE,
              !.user = 0, !.payload = "", !.fields = NoFields]
Return(q, value) ==
    [q EXCEPT !.pc = "done", !.result = "ok", !.value = value, !.wrote = FALSE,
              !.user = 0, !.payload = "", !.fields = NoFields]

\* const { userId } = await auth(); if (!userId) throw new Error("Unauthorized")
Begin(op, userId) ==
    IF Unauthorized(userId)
      THEN Fail([Idle EXCEPT !.op = op, !.uid = userId], "Unauthorized", <<>>)
      ELSE [Idle EXCEPT !.op = op, !.uid = userId, !.pc = "findUser"]

\* the insight row a transaction has created and not yet committed
TxWrites(q) ==
    IF q.wrote
      THEN <<[industry |-> q.industry, data |-> q.payload, fields |-> q.fields]>>
      ELSE <<>>
\* another transaction holds an uncommitted row of this industry: a create of
\* the same key waits for it to end
PendingElsewhere(r, industry) ==
    \E o \in Slots \ {r} : req[o].wrote /\ req[o].industry = industry

\* db.$transaction: the callback returned, its writes are committed
TxCommit(rows, writes) == rows \o writes
\* db.$transaction: the callback raised, its writes are discarded
TxRollbackKeepsWrites(rows, writes) == rows \o writes
TxRollback(rows, writes) == rows

----------------------------------------------------------------------------
\* updateUser(data): auth() and the industry check
updateUser_Begin(r) ==
    /\ req[r].op = "idle"
    /\ \E userId \in ClerkIds \cup {NoId}, industry \in Industries \cup {NoIndustry} :
        LET q == [Idle EXCEPT !.op = "updateUser", !.uid = userId, !.industry = industry]
        IN  req' = [req EXCEPT ![r] =
                IF Unauthorized(userId)
                  THEN Fail(q, "Unauthorized", <<>>)
                  ELSE IF industry = NoIndustry
                    THEN Fail(q, "Industry is required before updating the user.", <<>>)
                    ELSE [q EXCEPT !.pc = "findUser"]]
    /\ UNCHANGED <<users, insights, job, quizVars, retryVars, env>>

\* let user = await db.user.findUnique({ where: { clerkUserId: userId } })
updateUser_FindUser(r) ==
    /\ req[r].op = "updateUser" /\ req[r].pc = "findUser"
    /\ \E s \in StorageOutcomes :
        LET i == FindUserByClerkId(users, req[r].uid)
            q == [req[r] EXCEPT !.db = TRUE]
        IN  req' = [req EXCEPT ![r] =
                IF s = "error"
                  THEN Fail(q, "Failed to update profile", StorageError)
                  ELSE [q EXCEPT !.user = i, !.pc = IF i # 0 THEN "txFind" ELSE "createUser"]]
    /\ UNCHANGED <<users, insights, job, quizVars, retryVars, env>>

\* currentUser(), then db.user.create; its catch block: on code P2002 the
\* row is read again with db.user.findUnique, any other error is raised
updateUser_CreateUser(r) ==
    /\ req[r].op = "updateUser" /\ req[r].pc = "createUser"
    /\ \E clerkUser \in BOOLEAN, s \in StorageOutcomes, again \in StorageOutcomes :
        LET i == FindUserByClerkId(users, req[r].uid)
        IN  IF ~clerkUser
              THEN /\ req' = [req EXCEPT ![r] =
                          Fail(@, "Failed to update profile", <<"User not authenticated">>)]
                   /\ UNCHANGED users
              ELSE IF s = "error"
                THEN /\ req' = [req EXCEPT ![r] =
                            Fail(@, "Failed to update profile", StorageError)]
                     /\ UNCHANGED users
                ELSE IF i # 0
                  THEN /\ req' = [req EXCEPT ![r] =
                              IF again = "error"
                                THEN Fail([@ EXCEPT !.lostUser = TRUE],
                                          "Failed to update profile", StorageError)
                                ELSE [@ EXCEPT !.lostUser = TRUE, !.user = i, !.pc = "txFind"]]
                       /\ UNCHANGED users
                  ELSE /\ users' = Append(users, NewUser(req[r].uid))
                       /\ req' = [req EXCEPT ![r] =
                              [@ EXCEPT !.user = Len(users) + 1, !.pc = "txFind"]]
    /\ UNCHANGED <<insights, job, quizVars, retryVars, env>>

\* db.$transaction: tx.industryInsight.findUnique({ where: { industry } })
updateUser_TxFind(r) ==
    /\ req[r].op = "updateUser" /\ req[r].pc = "txFind"
    /\ \E s \in StorageOutcomes :
        LET q == [req[r] EXCEPT !.lostUser = FALSE]
        IN  req' = [req EXCEPT ![r] =
                IF s = "error"
                  THEN Fail(q, "Failed to update profile", StorageError)
                  ELSE [q EXCEPT !.pc = IF FindInsight(insights, req[r].industry) # 0
                                          THEN "txUpdate" ELSE "txGenerate"]]
    /\ UNCHANGED <<users, insights, job, quizVars, retryVars, env>>

\* const insights = await generateAIInsights(data.industry)
updateUser_TxGenerate(r) ==
    /\ req[r].op = "updateUser" /\ req[r].pc = "txGenerate"
    /\ \E outcome \in AiOutcomes :
        LET g == generateAIInsights(outcome)
            q == [req[r] EXCEPT !.ai = @ + g.aiCalls]
        IN  req' = [req EXCEPT ![r] =
                IF g.ok
                  THEN [q EXCEPT !.payload = g.payload, !.fields = g.fields, !.pc = "txCreate"]
                  ELSE Fail(q, "Failed to update profile", g.error)]
    /\ UNCHANGED <<users, insights, job, quizVars, retryVars, env>>

\* industryInsight = await tx.industryInsight.create(...)
updateUser_TxCreate(r) ==
    /\ req[r].op = "updateUser" /\ req[r].pc = "txCreate"
    /\ ~PendingElsewhere(r, req[r].industry)
    /\ \E s \in StorageOutcomes, e \in env.elapsed :
        LET data == CreateData(req[r].fields, Now)
        IN  req' = [req EXCEPT ![r] =
                IF s = "error"
                  THEN Fail(@, "Failed to update profile", StorageError)
                  ELSE IF EnumViolation(data)
                    THEN Fail(@, "Failed to update profile", ValidationError)
                    ELSE IF UniqueViolation(insights, req[r].industry)
                      THEN Fail([@ EXCEPT !.lost = TRUE], "Failed to update profile", <<"P2002">>)
                      ELSE [@ EXCEPT !.wrote = TRUE, !.pc = "txUpdate",
                                     !.fields = Spread(ColumnDefaults(Now + e), data)]]
    /\ UNCHANGED <<users, insights, job, quizVars, retryVars, env>>

\* tx.user.update({ where: { id: user.id }, data }), then commit; an error
\* (the 10 s timeout of the transaction included) rolls the transaction back
updateUser_TxUpdate(r) ==
    /\ req[r].op = "updateUser" /\ req[r].pc = "txUpdate"
    /\ \E s \in StorageOutcomes :
        IF s = "ok"
          THEN /\ insights' = TxCommit(insights, TxWrites(req[r]))
               /\ users' = [users EXCEPT ![req[r].user] =
                      [@ EXCEPT !.industry = req[r].industry, !.profile = "updated",
                                !.viaUpdate = TRUE]]
               /\ req' = [req EXCEPT ![r] = Return(@, "profile")]
          ELSE /\ insights' = TxRollback(insights, TxWrites(req[r]))
               /\ UNCHANGED users
               /\ req' = [req EXCEPT ![r] =
                      Fail(@, "Failed to update profile", UserUpdateError)]
    /\ UNCHANGED <<job, quizVars, retryVars, env>>

----------------------------------------------------------------------------
\* getIndustryInsights(): auth()
getIndustryInsights_Begin(r) ==
    /\ req[r].op = "idle"
    /\ \E userId \in ClerkIds \cup {NoId} :
        req' = [req EXCEPT ![r] = Begin("getIndustryInsights", userId)]
    /\ UNCHANGED <<users, insights, job, quizVars, retryVars, env>>

\* db.user.findUnique({ where, include: { industryInsight: true } }) and the
\* checks on the row
getIndustryInsights_FindUser(r) ==
    /\ req[r].op = "getIndustryInsights" /\ req[r].pc = "findUser"
    /\ \E s \in StorageOutcomes :
        LET i == FindUserByClerkId(users, req[r].uid)
            q == [req[r] EXCEPT !.db = TRUE]
        IN  req' = [req EXCEPT ![r] =
                IF s = "error"
                  THEN Fail(q, "error", StorageError)
                  ELSE IF i = 0
                    THEN Fail(q, "User not found", <<>>)
                    ELSE IF users[i].industry = NoIndustry
                      THEN Fail(q, "User industry is not set. Please update your profile first.", <<>>)
                      ELSE IF FindInsight(insights, users[i].industry) # 0
                        THEN Return([q EXCEPT !.industry = users[i].industry], "insight")
                        ELSE [q EXCEPT !.industry = users[i].industry, !.pc = "generate"]]
    /\ UNCHANGED <<users, insights, job, quizVars, retryVars, env>>

\* const insights = await generateAIInsights(user.industry)
getIndustryInsights_Generate(r) ==
    /\ req[r].op = "getIndustryInsights" /\ req[r].pc = "generate"
    /\ \E outcome \in AiOutcomes :
        LET g == generateAIInsights(outcome)
            q == [req[r] EXCEPT !.ai = @ + g.aiCalls]
        IN  req' = [req EXCEPT ![r] =
                IF g.ok
                  THEN [q EXCEPT !.payload = g.payload, !.fields = g.fields, !.pc = "create"]
                  ELSE Fail(q, "error", g.error)]
    /\ UNCHANGED <<users, insights, job, quizVars, retryVars, env>>

\* const industryInsight = await db.industryInsight.create(...)
getIndustryInsights_Create(r) ==
    /\ req[r].op = "getIndustryInsights" /\ req[r].pc = "create"
    /\ ~PendingElsewhere(r, req[r].industry)
    /\ \E s \in StorageOutcomes, e \in env.elapsed :
        LET data == CreateData(req[r].fields, Now)
        IN  IF s = "error"
              THEN /\ req' = [req EXCEPT ![r] = Fail(@, "error", StorageError)]
                   /\ UNCHANGED insights
              ELSE IF EnumViolation(data)
                THEN /\ req' = [req EXCEPT ![r] = Fail(@, "error", ValidationError)]
                     /\ UNCHANGED insights
                ELSE IF UniqueViolation(insights, req[r].industry)
                  THEN /\ req' = [req EXCEPT ![r] =
                              Fail([@ EXCEPT !.lost = TRUE], "error", <<"P2002">>)]
                       /\ UNCHANGED insights
                  ELSE /\ insights' = InsightCreate(insights, req[r].industry,
                              [data |-> req[r].payload,
                               fields |-> Spread(ColumnDefaults(Now + e), data)])
                       /\ req' = [req EXCEPT ![r] = Return(@, "insight")]
    /\ UNCHANGED <<users, job, quizVars, retryVars, env>>

----------------------------------------------------------------------------
\* retryWithBackoff(() => model.generateContent(prompt), 5, 1000, 1200) as one
\* step of an action: what the AI did at the last invocation and how many
\* invocations were made; a retry-eligible rejection ends the helper only at
\* the last of the 5 attempts
RetriedOutcomes ==
    { run \in [outcome : AiOutcomes, calls : 1 .. CallSiteRetries] :
        (run.outcome.kind = "rejected" /\ isRetryable(run.outcome.msg))
            => run.calls = CallSiteRetries }

\* const user = await db.user.findUnique(...); if (!user) throw new Error("User not found")
FindUserOrRaise(q, s, next) ==
    LET i == FindUserByClerkId(users, q.uid)
    IN  IF s = "error"
          THEN Fail([q EXCEPT !.db = TRUE], "error", StorageError)
          ELSE IF i = 0
            THEN Fail([q EXCEPT !.db = TRUE], "User not found", <<>>)
            ELSE [q EXCEPT !.db = TRUE, !.user = i, !.pc = next]

FindResume(rows, userId) ==
    IF \E i \in DOMAIN rows : rows[i].userId = userId
      THEN CHOOSE i \in DOMAIN rows : rows[i].userId = userId
      ELSE 0

ResumeContents == {"resume A", "resume B"}

\* getUserOnboardingStatus()
getUserOnboardingStatus_Begin(r) ==
    /\ req[r].op = "idle"
    /\ \E userId \in ClerkIds \cup {NoId} :
        req' = [req EXCEPT ![r] = Begin("getUserOnboardingStatus", userId)]
    /\ UNCHANGED <<users, insights, job, quizVars, retryVars, env>>

\* db.user.findUnique({ select: { industry } }); the catch returns isOnboarded: false
getUserOnboardingStatus_FindUser(r) ==
    /\ req[r].op = "getUserOnboardingStatus" /\ req[r].pc = "findUser"
    /\ \E s \in StorageOutcomes :
        LET i == FindUserByClerkId(users, req[r].uid)
            q == [req[r] EXCEPT !.db = TRUE]
        IN  req' = [req EXCEPT ![r] =
                IF s = "error"
                  THEN [Return(q, "isOnboarded: false") EXCEPT !.caught = StorageError]
                  ELSE IF i # 0 /\ users[i].industry # NoIndustry
                    THEN Return(q, "isOnboarded: true")
                    ELSE Return(q, "isOnboarded: false")]
    /\ UNCHANGED <<users, insights, job, quizVars, retryVars, env>>

\* saveResume(content)
saveResume_Begin(r) ==
    /\ req[r].op = "idle"
    /\ \E userId \in ClerkIds \cup {NoId}, content \in ResumeContents :
        req' = [req EXCEPT ![r] = [Begin("saveResume", userId) EXCEPT !.input = content]]
    /\ UNCHANGED <<users, insights, job, quizVars, retryVars, env>>

saveResume_FindUser(r) ==
    /\ req[r].op = "saveResume" /\ req[r].pc = "findUser"
    /\ \E s \in StorageOutcomes :
        req' = [req EXCEPT ![r] = FindUserOrRaise(@, s, "upsert")]
    /\ UNCHANGED <<users, insights, job, quizVars, retryVars, env>>

\* db.resume.upsert({ where: { userId }, update: { content }, create: { userId, content } })
saveResume_Upsert(r) ==
    /\ req[r].op = "saveResume" /\ req[r].pc = "upsert"
    /\ \E s \in StorageOutcomes :
        LET i == FindResume(resumes, req[r].user)
        IN  IF s = "error"
              THEN /\ req' = [req EXCEPT ![r] = Fail(@, "Failed to save resume", StorageError)]
                   /\ UNCHANGED resumes
              ELSE /\ resumes' = IF i = 0
                                   THEN Append(resumes, [userId |-> req[r].user,
                                                         content |-> req[r].input])
                                   ELSE [resumes EXCEPT ![i].content = req[r].input]
                   /\ req' = [req EXCEPT ![r] = Return(@, req[r].input)]
    /\ UNCHANGED <<users, insights, job, assessments, retryVars, env>>

\* getResume()
getResume_Begin(r) ==
    /\ req[r].op = "idle"
    /\ \E userId \in ClerkIds \cup {NoId} :
        req' = [req EXCEPT ![r] = Begin("getResume", userId)]
    /\ UNCHANGED <<users, insights, job, quizVars, retryVars, env>>

getResume_FindUser(r) ==
    /\ req[r].op = "getResume" /\ req[r].pc = "findUser"
    /\ \E s \in StorageOutcomes :
        req' = [req EXCEPT ![r] = FindUserOrRaise(@, s, "read")]
    /\ UNCHANGED <<users, insights, job, quizVars, retryVars, env>>

\* return await db.resume.findUnique({ where: { userId: user.id } })
getResume_Read(r) ==
    /\ req[r].op = "getResume" /\ req[r].pc = "read"
    /\ \E s \in StorageOutcomes :
        LET i == FindResume(resumes, req[r].user)
        IN  req' = [req EXCEPT ![r] =
                IF s = "error"
                  THEN Fail(@, "error", StorageError)
                  ELSE Return(@, IF i = 0 THEN "null" ELSE resumes[i].content)]
    /\ UNCHANGED <<users, insights, job, quizVars, retryVars, env>>

(***************************************************************************)
(* Resume text.  A text is a sequence of tokens: words, " " for a run of   *)
(* whitespace, "." and "!".                                                *)
(***************************************************************************)
\* const actionVerbs = [...]
actionVerbs ==
    << "Achieved", "Accelerated", "Built", "Created", "Delivered", "Designed",
       "Developed", "Drove", "Enabled", "Enhanced", "Engineered", "Expanded",
       "Implemented", "Improved", "Increased", "Innovated", "Optimized", "Orchestrated",
       "Pioneered", "Scaled", "Streamlined", "Transformed", "Optimized" >>

\* the words of the model in both cases of their first letter
CasePairs ==
    { <<"Achieved", "achieved">>, <<"Accelerated", "accelerated">>, <<"Built", "built">>,
      <<"Created", "created">>, <<"Delivered", "delivered">>, <<"Designed", "designed">>,
      <<"Developed", "developed">>, <<"Drove", "drove">>, <<"Enabled", "enabled">>,
      <<"Enhanced", "enhanced">>, <<"Engineered", "engineered">>, <<"Expanded", "expanded">>,
      <<"Implemented", "implemented">>, <<"Improved", "improved">>, <<"Increased", "increased">>,
      <<"Innovated", "innovated">>, <<"Optimized", "optimized">>,
      <<"Orchestrated", "orchestrated">>, <<"Pioneered", "pioneered">>, <<"Scaled", "scaled">>,
      <<"Streamlined", "streamlined">>, <<"Transformed", "transformed">>,
      <<"Was", "was">>, <<"Were", "were">>, <<"Is", "is">>, <<"Are", "are">>,
      <<"Responsible", "responsible">>, <<"Led", "led">> }

\* s.charAt(0).toLowerCase() + s.slice(1), s.charAt(0).toUpperCase() + s.slice(1)
lowerFirst(w) ==
    IF \E p \in CasePairs : p[1] = w THEN (CHOOSE p \in CasePairs : p[1] = w)[2] ELSE w
upperFirst(w) ==
    IF \E p \in CasePairs : p[2] = w THEN (CHOOSE p \in CasePairs : p[2] = w)[1] ELSE w

RECURSIVE trimStart(_)
trimStart(t) == IF t # <<>> /\ Head(t) = " " THEN trimStart(Tail(t)) ELSE t
RECURSIVE trimEnd(_)
trimEnd(t) ==
    IF t # <<>> /\ t[Len(t)] = " " THEN trimEnd(SubSeq(t, 1, Len(t) - 1)) ELSE t
trim(t) == trimEnd(trimStart(t))

\* improved.replace(/^word\s+/i, "")
replacePassive(t, word) ==
    IF Len(t) >= 2 /\ lowerFirst(t[1]) = word /\ t[2] = " "
      THEN trimStart(Tail(t))
      ELSE t

\* /^(achieved|accelerated|...|transformed)/i.test(improved)
startsWithVerb(t) ==
    t # <<>> /\ \E k \in DOMAIN actionVerbs : lowerFirst(t[1]) = lowerFirst(actionVerbs[k])

endsWith(t, mark) == t # <<>> /\ t[Len(t)] = mark

\* actionVerbs[Math.floor(Math.random() * actionVerbs.length)], Math.random() = k / RandomGrain
DrawnVerb(k) == actionVerbs[((k * Len(actionVerbs)) \div RandomGrain) + 1]

\* polishContentLocally(content, type)
polishContentLocally(content, k) ==
    LET trimmed == trim(content)
        active == replacePassive(replacePassive(replacePassive(replacePassive(
                      trimmed, "was"), "were"), "is"), "are")
        withVerb == IF ~startsWithVerb(active) /\ Len(active) > 0
                      THEN <<DrawnVerb(k), " ", lowerFirst(Head(active))>> \o Tail(active)
                      ELSE active
        ended == IF ~endsWith(withVerb, ".") /\ ~endsWith(withVerb, "!")
                   THEN Append(withVerb, ".")
                   ELSE withVerb
    IN  <<upperFirst(Head(ended))>> \o Tail(ended)

\* the values of `current`
CurrentTexts ==
    { <<>>, <<" ">>,
      <<" ", "Was", " ", "responsible", " ", "is", ".", " ">>,
      <<"built", " ", "is">>,
      <<"Led", " ", "Is", "!">>,
      <<"are", " ", "were", " ", "Scaled">> }

\* the text the AI answers with, after the code fences are removed
AiTexts == { <<"Led", " ", "is", ".">> }

\* catch (error) { ...; return polishContentLocally(current, type); }
FallbackRethrows(q, error, k) == Fail(q, "error", error)
FallbackOnError(q, error, k) ==
    [Return(q, "text") EXCEPT !.text = polishContentLocally(q.current, k),
                              !.caught = error]

\* improveWithAI({ current, type })
improveWithAI_Begin(r) ==
    /\ req[r].op = "idle"
    /\ \E userId \in ClerkIds \cup {NoId}, current \in CurrentTexts :
        req' = [req EXCEPT ![r] =
                    [Begin("improveWithAI", userId) EXCEPT !.current = current]]
    /\ UNCHANGED <<users, insights, job, quizVars, retryVars, env>>

improveWithAI_FindUser(r) ==
    /\ req[r].op = "improveWithAI" /\ req[r].pc = "findUser"
    /\ \E s \in StorageOutcomes :
        req' = [req EXCEPT ![r] = FindUserOrRaise(@, s, "improve")]
    /\ UNCHANGED <<users, insights, job, quizVars, retryVars, env>>

\* the try block around the retried AI call and the text extraction; the
\* catch returns polishContentLocally(current, type)
improveWithAI_Improve(r) ==
    /\ req[r].op = "improveWithAI" /\ req[r].pc = "improve"
    /\ \E run \in RetriedOutcomes, k \in 0 .. RandomGrain - 1, answer \in AiTexts :
        LET q == [req[r] EXCEPT !.ai = @ + run.calls]
        IN  req' = [req EXCEPT ![r] =
                CASE run.outcome.kind \in {"json", "garbage"} ->
                        [Return(q, "text") EXCEPT !.text = answer]
                  [] run.outcome.kind = "absent" ->
                        FallbackOnError(q, <<"No response from AI model">>, k)
                  [] OTHER -> FallbackOnError(q, run.outcome.msg, k)]
    /\ UNCHANGED <<users, insights, job, quizVars, retryVars, env>>

\* generateQuiz()
generateQuiz_Begin(r) ==
    /\ req[r].op = "idle"
    /\ \E userId \in ClerkIds \cup {NoId} :
        req' = [req EXCEPT ![r] = Begin("generateQuiz", userId)]
    /\ UNCHANGED <<users, insights, job, quizVars, retryVars, env>>

generateQuiz_FindUser(r) ==
    /\ req[r].op = "generateQuiz" /\ req[r].pc = "findUser"
    /\ \E s \in StorageOutcomes :
        req' = [req EXCEPT ![r] = FindUserOrRaise(@, s, "generate")]
    /\ UNCHANGED <<users, insights, job, quizVars, retryVars, env>>

\* the try block: the retried AI call, the text extraction, JSON.parse
generateQuiz_Generate(r) ==
    /\ req[r].op = "generateQuiz" /\ req[r].pc = "generate"
    /\ \E run \in RetriedOutcomes :
        LET q == [req[r] EXCEPT !.ai = @ + run.calls]
            failed == "Failed to generate quiz questions"
        IN  req' = [req EXCEPT ![r] =
                CASE run.outcome.kind = "json" -> Return(q, "questions")
                  [] run.outcome.kind = "garbage" ->
                        Fail(q, failed, <<"Failed to parse quiz questions from AI response">>)
                  [] run.outcome.kind = "absent" ->
                        Fail(q, failed, <<"No response from AI model">>)
                  [] OTHER -> Fail(q, failed, run.outcome.msg)]
    /\ UNCHANGED <<users, insights, job, quizVars, retryVars, env>>

\* the quizzes handed in: the correct answer of every question and the
\* user's answers, which may be fewer than the questions
Quizzes ==
    { [questions |-> <<>>, answers |-> <<>>],
      [questions |-> <<"a", "b">>, answers |-> <<"a", "b">>],
      [questions |-> <<"a", "b">>, answers |-> <<"a", "a">>],
      [questions |-> <<"a", "b">>, answers |-> <<"a">>] }

\* questionResults.filter((q) => !q.isCorrect), isCorrect: q.correctAnswer === answers[index]
wrongAnswers(questions, answers) ==
    { i \in DOMAIN questions : i \notin DOMAIN answers \/ questions[i] # answers[i] }

\* let improvementTip = null
NoTip == "null"

\* catch (error) { console.error(...) }: continue without improvement tip
TipFailureRaised(q, error) == Fail(q, "error", error)
TipFailureSwallowed(q, error) == [q EXCEPT !.caught = error, !.pc = "create"]

\* saveQuizResult(questions, answers, score)
saveQuizResult_Begin(r) ==
    /\ req[r].op = "idle"
    /\ \E userId \in ClerkIds \cup {NoId}, quiz \in Quizzes :
        req' = [req EXCEPT ![r] =
                    [Begin("saveQuizResult", userId) EXCEPT !.questions = quiz.questions,
                                                            !.answers = quiz.answers]]
    /\ UNCHANGED <<users, insights, job, quizVars, retryVars, env>>

\* the user lookup, let improvementTip = null, then if (wrongAnswers.length > 0)
saveQuizResult_FindUser(r) ==
    /\ req[r].op = "saveQuizResult" /\ req[r].pc = "findUser"
    /\ \E s \in StorageOutcomes :
        LET wrong == wrongAnswers(req[r].questions, req[r].answers)
            found == FindUserOrRaise(req[r], s, IF Cardinality(wrong) > 0 THEN "tip" ELSE "create")
        IN  req' = [req EXCEPT ![r] =
                IF found.pc = "done" THEN found ELSE [found EXCEPT !.payload = NoTip]]
    /\ UNCHANGED <<users, insights, job, quizVars, retryVars, env>>

\* the try block of the improvement tip; its catch only logs
saveQuizResult_Tip(r) ==
    /\ req[r].op = "saveQuizResult" /\ req[r].pc = "tip"
    /\ \E run \in RetriedOutcomes :
        LET q == [req[r] EXCEPT !.ai = @ + run.calls]
        IN  req' = [req EXCEPT ![r] =
                CASE run.outcome.kind \in {"json", "garbage"} ->
                        [q EXCEPT !.payload = "tip", !.pc = "create"]
                  [] run.outcome.kind = "absent" ->
                        [q EXCEPT !.payload = "", !.pc = "create"]
                  [] OTHER -> TipFailureSwallowed(q, run.outcome.msg)]
    /\ UNCHANGED <<users, insights, job, quizVars, retryVars, env>>

\* db.assessment.create({ data: { userId, quizScore, questions, category, improvementTip } })
saveQuizResult_Create(r) ==
    /\ req[r].op = "saveQuizResult" /\ req[r].pc = "create"
    /\ Len(assessments) < MaxAssessments
    /\ \E s \in StorageOutcomes :
        IF s = "error"
          THEN /\ req' = [req EXCEPT ![r] =
                      Fail(@, "Failed to save quiz result", StorageError)]
               /\ UNCHANGED assessments
          ELSE /\ assessments' = Append(assessments,
                      [userId |-> req[r].user, improvementTip |-> req[r].payload])
               /\ req' = [req EXCEPT ![r] = Return(@, req[r].payload)]
    /\ UNCHANGED <<users, insights, job, resumes, retryVars, env>>

\* getAssessments()
getAssessments_Begin(r) ==
    /\ req[r].op = "idle"
    /\ \E userId \in ClerkIds \cup {NoId} :
        req' = [req EXCEPT ![r] = Begin("getAssessments", userId)]
    /\ UNCHANGED <<users, insights, job, quizVars, retryVars, env>>

getAssessments_FindUser(r) ==
    /\ req[r].op = "getAssessments" /\ req[r].pc = "findUser"
    /\ \E s \in StorageOutcomes :
        req' = [req EXCEPT ![r] = FindUserOrRaise(@, s, "read")]
    /\ UNCHANGED <<users, insights, job, quizVars, retryVars, env>>

\* db.assessment.findMany({ where: { userId }, orderBy: { createdAt: "asc" } })
getAssessments_Read(r) ==
    /\ req[r].op = "getAssessments" /\ req[r].pc = "read"
    /\ \E s \in StorageOutcomes :
        req' = [req EXCEPT ![r] =
            IF s = "error"
              THEN Fail(@, "Failed to fetch assessments", StorageError)
              ELSE Return(@, "assessments")]
    /\ UNCHANGED <<users, insights, job, quizVars, retryVars, env>>

\* the two texts of checkUser in the source
CheckUserTexts == {"lib/checkUser.js", "unnamed/part_001"}

\* the email address of an identity; User.email is a unique key as well
FindUserByEmail(rows, clerkUserId) == FindUserByClerkId(rows, clerkUserId)

\* checkUser(): const user = await currentUser(); if (!user) return null
checkUser_Begin(r) ==
    /\ req[r].op = "idle"
    /\ \E user \in ClerkIds \cup {NoId}, text \in CheckUserTexts :
        LET q == [Idle EXCEPT !.op = "checkUser", !.uid = user, !.input = text]
        IN  req' = [req EXCEPT ![r] =
                IF user = NoId THEN Return(q, "null") ELSE [q EXCEPT !.pc = "findUser"]]
    /\ UNCHANGED <<users, insights, job, quizVars, retryVars, env>>

\* db.user.findUnique({ where: { clerkUserId: user.id } }); if (loggedInUser) return loggedInUser
checkUser_FindUser(r) ==
    /\ req[r].op = "checkUser" /\ req[r].pc = "findUser"
    /\ \E s \in StorageOutcomes :
        LET i == FindUserByClerkId(users, req[r].uid)
            q == [req[r] EXCEPT !.db = TRUE]
        IN  req' = [req EXCEPT ![r] =
                IF s = "error"
                  THEN Fail(q, "Failed to check/create user", StorageError)
                  ELSE IF i # 0
                    THEN Return(q, "user")
                    ELSE [q EXCEPT !.pc = "createUser"]]
    /\ UNCHANGED <<users, insights, job, quizVars, retryVars, env>>

\* db.user.create(...).  In lib/checkUser.js every error of the create goes
\* to the catch that raises "Failed to check/create user"; in part_001 the
\* code P2002 is caught first and the row is read again, by clerkUserId and
\* then by email
checkUser_CreateUser(r) ==
    /\ req[r].op = "checkUser" /\ req[r].pc = "createUser"
    /\ \E s \in StorageOutcomes, again \in StorageOutcomes :
        LET i == FindUserByClerkId(users, req[r].uid)
            e == FindUserByEmail(users, req[r].uid)
            q == [req[r] EXCEPT !.lostUser = TRUE]
        IN  IF s = "error"
              THEN /\ req' = [req EXCEPT ![r] =
                          Fail(@, "Failed to check/create user", StorageError)]
                   /\ UNCHANGED users
              ELSE IF i # 0
                THEN /\ req' = [req EXCEPT ![r] =
                            IF req[r].input = "lib/checkUser.js"
                              THEN Fail(q, "Failed to check/create user", <<"P2002">>)
                              ELSE IF again = "error"
                                THEN Fail(q, "Failed to check/create user", StorageError)
                                ELSE IF i # 0 \/ e # 0
                                  THEN Return(q, "user")
                                  ELSE Fail(q, "Failed to check/create user", <<"P2002">>)]
                     /\ UNCHANGED users
                ELSE /\ users' = Append(users, NewUser(req[r].uid))
                     /\ req' = [req EXCEPT ![r] = Return(@, "user")]
    /\ UNCHANGED <<insights, job, quizVars, retryVars, env>>

\* the response is delivered; the slot serves the next request
Finish(r) ==
    /\ req[r].pc = "done"
    /\ req' = [req EXCEPT ![r] = Idle]
    /\ UNCHANGED <<users, insights, job, quizVars, retryVars, env>>

(***************************************************************************)
(* The scheduled job generateIndustryInsights (cron, every Sunday).        *)
(***************************************************************************)
JobIdle ==
    [pc |-> "idle", fetched |-> <<>>, idx |-> 0, payload |-> "", fields |-> NoFields,
     log |-> <<>>, calls |-> <<>>]

\* calls: the industries an AI call was made for, in order;
\* log: per industry handled, "succeeded" when the AI answered with JSON and
\* storage accepted the update, "no row" when the row to update was gone,
\* "failed" otherwise
\* the for loop moves to the next industry, or ends
NextIndustryRepeats(j) ==
    [j EXCEPT !.idx = IF @ = 0 THEN 1 ELSE @, !.payload = "", !.fields = NoFields,
              !.pc = IF Len(j.fetched) = 0 THEN "done" ELSE "generate"]
NextIndustry(j) ==
    [j EXCEPT !.idx = @ + 1, !.payload = "", !.fields = NoFields,
              !.pc = IF j.idx + 1 > Len(j.fetched) THEN "done" ELSE "generate"]

\* catch (err) { console.error(...); continue; }
CatchRethrows(j, what) ==
    [j EXCEPT !.log = Append(@, what), !.payload = "", !.fields = NoFields, !.pc = "raised"]
CatchAndContinue(j, what) == NextIndustry([j EXCEPT !.log = Append(@, what)])

\* step.run("Fetch industries"): db.industryInsight.findMany({ select: { industry } })
generateIndustryInsights_Fetch ==
    /\ job.pc = "idle"
    /\ \E s \in StorageOutcomes :
        job' = IF s = "ok"
                 THEN NextIndustry([JobIdle EXCEPT
                          !.fetched = [i \in DOMAIN insights |-> insights[i].industry]])
                 ELSE [JobIdle EXCEPT !.pc = "raised"]
    /\ UNCHANGED <<users, insights, req, quizVars, retryVars, env>>

\* step.ai.wrap("gemini", ...), the text extraction and JSON.parse for the
\* industry at hand
generateIndustryInsights_Generate ==
    /\ job.pc = "generate"
    /\ \E outcome \in AiOutcomes :
        LET called == [job EXCEPT !.calls = Append(@, job.fetched[job.idx])]
        IN  job' = CASE outcome.kind = "json" ->
                          [called EXCEPT !.payload = "refreshed",
                                         !.fields = NormalizeInJob(outcome.body),
                                         !.pc = "update"]
                     [] outcome.kind = "garbage" ->
                          NextIndustry([called EXCEPT !.log = Append(@, "failed")])
                     [] outcome.kind = "absent" ->
                          CatchAndContinue(called, "failed")
                     [] OTHER ->
                          CatchAndContinue(called, "failed")
    /\ UNCHANGED <<users, insights, req, quizVars, retryVars, env>>

\* step.run(`Update ${industry} insights`): db.industryInsight.update(...)
generateIndustryInsights_Update ==
    /\ job.pc = "update"
    /\ \E s \in StorageOutcomes, e \in env.elapsed :
        LET industry == job.fetched[job.idx]
            data == UpdateData(job.fields, Now, Now + e)
        IN  IF s = "ok" /\ ~EnumViolation(data)
              THEN /\ insights' = InsightUpdate(insights, industry,
                          [data |-> job.payload, fields |-> data])
                   /\ job' = IF FindInsight(insights, industry) # 0
                               THEN NextIndustry([job EXCEPT !.log = Append(@, "succeeded")])
                               ELSE CatchAndContinue(job, "no row")
              ELSE /\ UNCHANGED insights
                   /\ job' = CatchAndContinue(job, "failed")
    /\ UNCHANGED <<users, req, quizVars, retryVars, env>>

\* the next cron tick starts another run
generateIndustryInsights_Restart ==
    /\ job.pc \in {"done", "raised"}
    /\ job' = JobIdle
    /\ UNCHANGED <<users, insights, req, quizVars, retryVars, env>>

JobNext ==
    \/ generateIndustryInsights_Fetch
    \/ generateIndustryInsights_Generate
    \/ generateIndustryInsights_Update
    \/ generateIndustryInsights_Restart

(***************************************************************************)
(* Specifications.                                                         *)
(***************************************************************************)
\* the rows storage may hold when the server starts: for every identity no
\* row, a row before onboarding, or a row with an industry; for every
\* industry an insight row or none
InitialUsers ==
    { rows \in UNION { [1 .. n -> [clerkUserId : ClerkIds,
                                   industry : Industries \cup {NoIndustry},
                                   profile : {""}, viaUpdate : {FALSE}]]
                       : n \in 0 .. NumUsers } :
        \A i, k \in DOMAIN rows : i < k =>
            \E a, b \in 1 .. NumUsers :
                a < b /\ rows[i].clerkUserId = ClerkNames[a] /\ rows[k].clerkUserId = ClerkNames[b] }

\* the columns of a row stored before the run
SeededFields ==
    [salaryRanges |-> List(5, "old range"), growthRate |-> 3, demandLevel |-> "LOW",
     topSkills |-> List(5, "old skill"), marketOutlook |-> "NEGATIVE",
     keyTrends |-> List(5, "old trend"), recommendedSkills |-> List(5, "old skill"),
     lastUpdated |-> Now, nextUpdate |-> Now + WeekMs]

InitialInsights ==
    { rows \in UNION { [1 .. n -> [industry : Industries, data : {"seeded"},
                                   fields : {SeededFields}]]
                       : n \in 0 .. NumIndustries } :
        \A i, k \in DOMAIN rows : i < k =>
            \E a, b \in 1 .. NumIndustries :
                a < b /\ rows[i].industry = IndustryNames[a] /\ rows[k].industry = IndustryNames[b] }

\* the AI answers with the object asked for and the clock stands still
\* between two readings
QuietEnv == [answers |-> {WellFormed}, elapsed |-> {0}]
\* the AI answers with any of AiPayloads and the clock may advance
AnyEnv == [answers |-> AiPayloads, elapsed |-> 0 .. MaxElapsedMs]

AppIdle ==
    /\ env = QuietEnv
    /\ users = <<>>
    /\ insights = <<>>
    /\ resumes = <<>>
    /\ assessments = <<>>
    /\ req = [r \in Slots |-> Idle]
    /\ job = JobIdle

AppInit ==
    /\ env = QuietEnv
    /\ users \in InitialUsers
    /\ insights \in InitialInsights
    /\ resumes = <<>>
    /\ assessments = <<>>
    /\ req = [r \in Slots |-> Idle]
    /\ job = JobIdle

Init == RetryInit /\ AppInit

InsightRequest(r) ==
    \/ updateUser_Begin(r)
    \/ updateUser_FindUser(r)
    \/ updateUser_CreateUser(r)
    \/ updateUser_TxFind(r)
    \/ updateUser_TxGenerate(r)
    \/ updateUser_TxCreate(r)
    \/ updateUser_TxUpdate(r)
    \/ getIndustryInsights_Begin(r)
    \/ getIndustryInsights_FindUser(r)
    \/ getIndustryInsights_Generate(r)
    \/ getIndustryInsights_Create(r)
    \/ Finish(r)

Next == (\E r \in Slots : InsightRequest(r)) \/ JobNext

\* profile updates, dashboard reads and runs of the scheduled job, interleaved
Spec == Init /\ [][Next]_vars

\* a row of IndustryInsight is removed by someone else (no code of the
\* server deletes one): database maintenance between two steps of the job
RowRemovedOutside ==
    /\ \E i \in DOMAIN insights :
        insights' = [k \in 1 .. Len(insights) - 1 |->
                        IF k < i THEN insights[k] ELSE insights[k + 1]]
    /\ UNCHANGED <<users, req, job, quizVars, retryVars, env>>

\* the scheduled job beside dashboard reads in one request slot, in a
\* database whose rows may also be removed from outside
FirstSlot == {1}
DashboardRequest(r) ==
    \/ getIndustryInsights_Begin(r)
    \/ getIndustryInsights_FindUser(r)
    \/ getIndustryInsights_Generate(r)
    \/ getIndustryInsights_Create(r)
    \/ Finish(r)
SpecJob ==
    Init /\ [][JobNext \/ RowRemovedOutside \/ (\E r \in FirstSlot : DashboardRequest(r))]_vars

OtherRequest(r) ==
    \/ getUserOnboardingStatus_Begin(r)
    \/ getUserOnboardingStatus_FindUser(r)
    \/ saveResume_Begin(r)
    \/ saveResume_FindUser(r)
    \/ saveResume_Upsert(r)
    \/ getResume_Begin(r)
    \/ getResume_FindUser(r)
    \/ getResume_Read(r)
    \/ improveWithAI_Begin(r)
    \/ improveWithAI_FindUser(r)
    \/ improveWithAI_Improve(r)
    \/ generateQuiz_Begin(r)
    \/ generateQuiz_FindUser(r)
    \/ generateQuiz_Generate(r)
    \/ saveQuizResult_Begin(r)
    \/ saveQuizResult_FindUser(r)
    \/ saveQuizResult_Tip(r)
    \/ saveQuizResult_Create(r)
    \/ getAssessments_Begin(r)
    \/ getAssessments_FindUser(r)
    \/ getAssessments_Read(r)

\* every server action, one request at a time, without the scheduled job
SpecActions ==
    Init /\ [][\E r \in FirstSlot : InsightRequest(r) \/ OtherRequest(r)]_vars

\* the helper on its own: no table, no request
InitRetry == RetryInit /\ AppIdle

\* requests that look the User row up and create it when it is missing
UserRequest(r) ==
    \/ updateUser_Begin(r)
    \/ updateUser_FindUser(r)
    \/ updateUser_CreateUser(r)
    \/ updateUser_TxFind(r)
    \/ updateUser_TxGenerate(r)
    \/ updateUser_TxCreate(r)
    \/ updateUser_TxUpdate(r)
    \/ checkUser_Begin(r)
    \/ checkUser_FindUser(r)
    \/ checkUser_CreateUser(r)
    \/ Finish(r)

SpecUsers == Init /\ [][\E r \in Slots : UserRequest(r)]_vars

\* one request at a time beside the scheduled job, with an AI that answers
\* with any of AiPayloads
InitInsights ==
    /\ RetryInit
    /\ env = AnyEnv
    /\ users \in InitialUsers
    /\ insights \in InitialInsights
    /\ resumes = <<>>
    /\ assessments = <<>>
    /\ req = [r \in Slots |-> Idle]
    /\ job = JobIdle

SpecInsights == InitInsights /\ [][JobNext \/ (\E r \in FirstSlot : InsightRequest(r))]_vars

SpecRetry == InitRetry /\ [][RetryNext]_vars

\* every invocation of fn settles and every timer fires
SpecRetryFair == SpecRetry /\ WF_vars(RetryNext)

(***************************************************************************)
(* Properties of retryWithBackoff.                                         *)
(***************************************************************************)
RetryTokens == {"503", "overloaded", "429", "timeout", "service unavailable"}

\* the message holds one of the tokens, whatever its case
ContainsRetryToken(m) == \E i \in DOMAIN m : toLowerCase(m[i]) \in RetryTokens

EligibleFailure(o) == ~o.ok /\ ContainsRetryToken(o.data)
OtherFailure(o) == ~o.ok /\ ~ContainsRetryToken(o.data)
RetryEnded == rPc \in {"returned", "thrown"}

\* C1: with maxRetries = 5, when fn fails with a retry-eligible message on its
\* 1st and 2nd invocations the helper goes on to a 3rd invocation, and when
\* that one succeeds the helper returns its value after exactly 3 invocations
\* and exactly 2 delay waits.
C1_TwoFailuresThenSuccess ==
    (maxRetries = CallSiteRetries /\ Len(rHist) >= 2
        /\ EligibleFailure(rHist[1]) /\ EligibleFailure(rHist[2]))
    => /\ Len(rHist) = 2 => (rPc \in {"wait", "loop", "call"} /\ waits = 2)
       /\ (Len(rHist) >= 3 /\ rHist[3].ok)
            => /\ rPc = "returned"
               /\ returned = rHist[3].data
               /\ thrown = NoError
               /\ calls = 3
               /\ waits = 2

C1_Witness ==
    /\ maxRetries = CallSiteRetries
    /\ Len(rHist) = 3
    /\ EligibleFailure(rHist[1]) /\ EligibleFailure(rHist[2]) /\ rHist[3].ok
    /\ rHist[1].data = <<"The model is", "Overloaded">>
    /\ rPc = "returned"

\* C2: when fn fails with a message holding none of the retry-eligible tokens,
\* the helper raises that error at once: on the first attempt fn was invoked
\* exactly once and no delay wait occurred, for every maxRetries >= 1; a later
\* such failure is likewise raised without a further wait.
C2_OtherFailureRaisesAtOnce ==
    \A i \in DOMAIN rHist :
        (maxRetries >= 1 /\ OtherFailure(rHist[i]))
        => /\ i = Len(rHist)
           /\ rPc = "thrown"
           /\ thrown = rHist[i].data
           /\ calls = i
           /\ waits = i - 1

C2_Witness ==
    /\ maxRetries = CallSiteRetries
    /\ Len(rHist) = 1
    /\ OtherFailure(rHist[1])
    /\ rPc = "thrown"
    /\ calls = 1 /\ waits = 0

\* C3 (state part): fn is never invoked more than maxRetries times, and when
\* every attempt failed with a retry-eligible error the helper has raised the
\* error of the last attempt after exactly maxRetries invocations and exactly
\* maxRetries - 1 delay waits.
RetryBounded ==
    maxRetries >= 1 =>
        /\ calls <= maxRetries
        /\ calls = Len(rHist)
        /\ (\A i \in DOMAIN rHist : EligibleFailure(rHist[i]))
            => /\ rPc = "thrown" <=> Len(rHist) = maxRetries
               /\ rPc = "thrown"
                    => /\ thrown = rHist[Len(rHist)].data
                       /\ calls = maxRetries
                       /\ waits = maxRetries - 1

\* C3: for every maxRetries >= 1 and every pattern of failures the helper
\* terminates, within the bounds of RetryBounded.
C3_TerminatesWithinAttempts == <>RetryEnded /\ []RetryBounded

C3_Witness ==
    /\ maxRetries = CallSiteRetries
    /\ Len(rHist) = CallSiteRetries
    /\ \A i \in DOMAIN rHist : EligibleFailure(rHist[i])
    /\ rPc = "thrown"
    /\ waits = CallSiteRetries - 1

(***************************************************************************)
(* Properties of the insight store, the on-demand resolver and the job.    *)
(***************************************************************************)
InsightKeys == {insights[i].industry : i \in DOMAIN insights}
RowsOf(industry) == {i \in DOMAIN insights : insights[i].industry = industry}

\* C4: in every state reached by interleaving updateUser calls,
\* getIndustryInsights calls and runs of the scheduled job, the store holds at
\* most one IndustryInsight row per industry value.
C4_OneInsightPerIndustry ==
    \A i, k \in DOMAIN insights :
        insights[i].industry = insights[k].industry => i = k

\* a create was refused, and rows created on demand and refreshed by the job
\* stand side by side
C4_Witness ==
    /\ \E r \in Slots : req[r].lost
    /\ \E i, k \in DOMAIN insights :
        insights[i].data = "generated" /\ insights[k].data = "refreshed"

\* C5: when two requests found no insight row for the same industry and both
\* create it, exactly one row exists afterwards and the request whose create
\* was refused by the unique constraint ends returning a record, not raising.
C5_LoserReturnsWinnersRecord ==
    \A r \in Slots :
        req[r].lost =>
            /\ Cardinality(RowsOf(req[r].industry)) = 1
            /\ req[r].result = "ok"

\* C6 (state part): every user whose industry was written by updateUser has an
\* IndustryInsight row of that industry.
ProfileHasInsight ==
    \A i \in DOMAIN users :
        users[i].viaUpdate => RowsOf(users[i].industry) # {}

\* C6 (step part): a step in which updateUser ends raising leaves both tables
\* as they were, and a step of updateUser that adds an insight row also
\* writes the profile and ends the call successfully.
UpdateUserStepAtomic ==
    \A r \in Slots :
        (req[r].op = "updateUser" /\ req'[r] # req[r]) =>
            /\ (req'[r].pc = "done" /\ req'[r].result # "ok")
                    => (insights' = insights /\ users' = users)
            /\ insights' # insights
                    => /\ req'[r].result = "ok"
                       /\ users'[req[r].user].industry = req[r].industry
                       /\ users'[req[r].user].profile = "updated"

\* C6: updateUser is atomic over the insight creation and the profile update.
C6_UpdateUserAtomic == []ProfileHasInsight /\ [][UpdateUserStepAtomic]_vars

\* the transaction was rolled back after its insight row had been created:
\* no row of the industry is stored
C6_Witness ==
    /\ \E r \in Slots :
        /\ req[r].op = "updateUser" /\ req[r].pc = "done"
        /\ req[r].cause = UserUpdateError
        /\ req[r].ai = 1
        /\ RowsOf(req[r].industry) = {}
    /\ \E i \in DOMAIN users : users[i].viaUpdate

\* C7: in a run of the scheduled job a failure for one industry never keeps
\* the others from being handled: the job raises only when the fetch itself
\* fails, it handles the fetched industries one after the other to the last,
\* and every industry whose generation and update succeeded holds the
\* refreshed insights.
C7_FailuresAreIsolated ==
    /\ job.pc = "raised" => job.idx = 0
    /\ job.pc \in {"generate", "update"}
            => (job.idx \in DOMAIN job.fetched /\ Len(job.log) = job.idx - 1)
    /\ job.pc = "done" => Len(job.log) = Len(job.fetched)
    /\ \A i \in DOMAIN job.log :
        job.log[i] = "succeeded" =>
            \E k \in DOMAIN insights :
                insights[k].industry = job.fetched[i] /\ insights[k].data = "refreshed"

C7_Witness ==
    /\ job.pc = "done"
    /\ job.log = <<"failed", "succeeded">>

C9_EligibleFailureWasRetried ==
    \A r \in Slots :
        (req[r].op \in {"updateUser", "getIndustryInsights"} /\ req[r].pc = "done"
            /\ req[r].ai > 0 /\ ContainsRetryToken(req[r].cause))
        => req[r].ai = CallSiteRetries

\* C10: a server action called without a user identifier ends raising
\* "Unauthorized", having touched neither storage nor the AI.
C10_UnauthorizedFirst ==
    \A r \in Slots :
        (req[r].op # "idle" /\ req[r].uid = NoId) =>
            /\ req[r].pc = "done"
            /\ req[r].result = "Unauthorized"
            /\ ~req[r].db
            /\ req[r].ai = 0

C10_Witness ==
    \E r \in Slots :
        /\ req[r].op = "saveQuizResult" /\ req[r].uid = NoId
        /\ req[r].result = "Unauthorized"
        /\ Len(assessments) = MaxAssessments

\* C11: improveWithAI, called by an authenticated user that exists in
\* storage, never fails outright: whatever the AI call does, the step that
\* follows the user lookup returns a text, and when the AI path raised the
\* text is polishContentLocally of the original text.
C11_ImproveNeverFails ==
    [][\A r \in Slots :
        (req[r].op = "improveWithAI" /\ req[r].pc = "improve" /\ req'[r] # req[r]) =>
            /\ req'[r].pc = "done" /\ req'[r].result = "ok" /\ req'[r].value = "text"
            /\ req'[r].ai \in 1 .. CallSiteRetries
            /\ req'[r].caught = NoError => req'[r].text \in AiTexts
            /\ req'[r].caught # NoError =>
                \E k \in 0 .. RandomGrain - 1 :
                    req'[r].text = polishContentLocally(req[r].current, k)]_vars

\* the retries were exhausted and the fallback put a verb in front of the
\* text whose passive opening it had removed
C11_Witness ==
    \E r \in Slots :
        /\ req[r].op = "improveWithAI" /\ req[r].pc = "done"
        /\ req[r].ai = CallSiteRetries /\ req[r].caught = <<"503">>
        /\ req[r].current = <<" ", "Was", " ", "responsible", " ", "is", ".", " ">>
        /\ req[r].text = <<"Achieved", " ", "responsible", " ", "is", ".">>

\* C12: saveQuizResult calls the AI for an improvement tip only when an
\* answer is wrong; a failure of that call is swallowed, the assessment being
\* created and returned with improvementTip null; after the user lookup the
\* action raises only when the assessment create fails.
C12_TipFailureSwallowed ==
    [][\A r \in Slots :
        (req[r].op = "saveQuizResult" /\ req[r].pc # "done" /\ req'[r] # req[r]) =>
            /\ req'[r].ai # req[r].ai =>
                (req[r].pc = "tip" /\ wrongAnswers(req[r].questions, req[r].answers) # {})
            /\ req[r].pc = "tip" =>
                /\ req'[r].pc = "create"
                /\ req'[r].caught # NoError => req'[r].payload = NoTip
            /\ req[r].pc = "create" =>
                \/ /\ req'[r].result = "ok"
                   /\ req'[r].value = req[r].payload
                   /\ assessments' = Append(assessments,
                          [userId |-> req[r].user, improvementTip |-> req[r].payload])
                \/ /\ req'[r].result = "Failed to save quiz result"
                   /\ req'[r].cause = StorageError
                   /\ assessments' = assessments]_vars

\* the tip call failed at every attempt and the assessment was saved
\* without a tip
C12_Witness ==
    \E r \in Slots :
        /\ req[r].op = "saveQuizResult" /\ req[r].pc = "done" /\ req[r].result = "ok"
        /\ req[r].caught = <<"503">> /\ req[r].ai = CallSiteRetries
        /\ req[r].value = NoTip
        /\ \E i \in DOMAIN assessments : assessments[i].improvementTip = NoTip

UserRowsOf(clerkUserId) == {i \in DOMAIN users : users[i].clerkUserId = clerkUserId}

\* C13: when two requests of one identity both found no User row and both
\* create it, one User row of the identity exists afterwards and the request
\* whose create was refused by the unique constraint goes on with the
\* existing row: it does not end raising the refusal.
C13_LoserContinuesWithExistingUser ==
    \A r \in Slots :
        req[r].lostUser =>
            /\ Cardinality(UserRowsOf(req[r].uid)) = 1
            /\ ~(req[r].pc = "done" /\ req[r].cause = <<"P2002">>)

\* the insight columns the AI is asked for
InsightFields ==
    {"salaryRanges", "growthRate", "demandLevel", "topSkills", "marketOutlook",
     "keyTrends", "recommendedSkills"}
\* the rows written by a generation
GeneratedRows == {i \in DOMAIN insights : insights[i].data \in {"generated", "refreshed"}}

\* C14: after any successful generation, on demand or scheduled, the stored
\* record has demandLevel in {HIGH, MEDIUM, LOW} and marketOutlook in
\* {POSITIVE, NEUTRAL, NEGATIVE}, whatever the AI returned in those fields.
C14_StoredEnumsValid ==
    \A i \in GeneratedRows :
        /\ insights[i].fields.demandLevel \in DemandLevels
        /\ insights[i].fields.marketOutlook \in MarketOutlooks

\* a row was created from an answer without demandLevel, and a create of a
\* demand level outside the enumeration was refused
C14_Witness ==
    /\ \E i \in DOMAIN insights :
        insights[i].data = "generated" /\ insights[i].fields.demandLevel = "MEDIUM"
    /\ \E r \in Slots : req[r].pc = "done" /\ req[r].cause = ValidationError

\* C15: after any successful generation the stored record satisfies
\* nextUpdate - lastUpdated = 7 days.
C15_NextUpdateAfterSevenDays ==
    \A i \in GeneratedRows :
        insights[i].fields.nextUpdate - insights[i].fields.lastUpdated = WeekMs

\* C16: after any successful generation the stored record has at least 5
\* salary ranges, 5 top skills and 5 key trends, whatever JSON object the AI
\* returned.
C16_StoredListsLongEnough ==
    \A i \in GeneratedRows :
        /\ Len(insights[i].fields.salaryRanges) >= 5
        /\ Len(insights[i].fields.topSkills) >= 5
        /\ Len(insights[i].fields.keyTrends) >= 5

\* C17: a successful scheduled refresh of an industry is a full overwrite:
\* after the step that refreshed the row, every insight column of the row is
\* the value of the generated payload, none is left as it was.
C17_RefreshOverwritesAll ==
    [][(job.pc = "update" /\ job'.log = Append(job.log, "succeeded")) =>
        LET row == insights'[FindInsight(insights', job.fetched[job.idx])]
        IN  \A k \in InsightFields :
                k \in DOMAIN job.fields /\ row.fields[k] = job.fields[k]]_vars

\* C18: no error is discarded except a failure of the improvement tip in
\* saveQuizResult (and, in the job, a failure for one industry): an action
\* that caught a storage or AI failure and still returned is saveQuizResult
\* or, with its local fallback, improveWithAI.
C18_OnlyTipFailureDiscarded ==
    \A r \in Slots :
        (req[r].pc = "done" /\ req[r].result = "ok" /\ req[r].caught # NoError)
            => req[r].op \in {"saveQuizResult", "improveWithAI"}

\* C19: when the user has an industry without an insight row and the
\* generation fails, getIndustryInsights raises, returns nothing and creates
\* no row; it goes on to the create only with insights the AI answered.
C19_GenerationFailureRaises ==
    [][\A r \in Slots :
        (req[r].op = "getIndustryInsights" /\ req[r].pc = "generate" /\ req'[r] # req[r]) =>
            /\ req'[r].ai = req[r].ai + 1
            /\ \/ /\ req'[r].pc = "create"
                  /\ req'[r].fields \in {NormalizeOnDemand(b) : b \in env.answers}
                  /\ insights' = insights
               \/ /\ req'[r].pc = "done" /\ req'[r].result # "ok" /\ req'[r].value = ""
                  /\ req'[r].cause \in {<<"SyntaxError">>, <<"TypeError">>, <<"503">>,
                                        <<"API key not valid">>}
                  /\ insights' = insights]_vars

\* the AI answered with text that is no JSON: the call raised after one AI
\* call and the industry still has no row
C19_Witness ==
    \E r \in Slots :
        /\ req[r].op = "getIndustryInsights" /\ req[r].pc = "done"
        /\ req[r].result # "ok" /\ req[r].cause = <<"SyntaxError">> /\ req[r].ai = 1
        /\ req[r].industry # NoIndustry /\ RowsOf(req[r].industry) = {}

\* C20: the job handles the fetched industries one at a time and in order:
\* the AI call for an industry is made when all industries before it are
\* finished, an update is made for the industry just generated, and in a
\* finished run every fetched industry was attempted exactly once.
C20_OneIndustryAtATime ==
    /\ job.pc = "generate" =>
        /\ job.idx \in DOMAIN job.fetched
        /\ Len(job.log) = job.idx - 1
        /\ job.calls = SubSeq(job.fetched, 1, job.idx - 1)
    /\ job.pc = "update" =>
        /\ job.idx \in DOMAIN job.fetched
        /\ Len(job.log) = job.idx - 1
        /\ job.calls = SubSeq(job.fetched, 1, job.idx)
    /\ job.pc = "done" => (job.calls = job.fetched /\ Len(job.log) = Len(job.fetched))
    /\ job.pc \in {"idle", "raised"} => (job.calls = <<>> /\ job.log = <<>>)

\* a run over two industries ended, the first skipped after its AI call
\* failed, the second refreshed
C20_Witness ==
    /\ job.pc = "done"
    /\ Len(job.fetched) = 2 /\ job.calls = job.fetched
    /\ job.log = <<"failed", "succeeded">>
    /\ \E i \in DOMAIN insights :
        insights[i].industry = job.fetched[2] /\ insights[i].data = "refreshed"

(***************************************************************************)
(* Properties of the delays of retryWithBackoff.                           *)
(***************************************************************************)
RECURSIVE Doubled(_)
\* 1 doubled n times
Doubled(n) == IF n = 0 THEN 1 ELSE 2 * Doubled(n - 1)

\* C21: the delay waited after failed attempt i (0-indexed, i < maxRetries - 1)
\* is initialDelay doubled i times plus an integer jitter j, 0 <= j < maxJitter:
\* it lies in [initialDelay * 2^i, initialDelay * 2^i + maxJitter), and a wait
\* begins only after a failed attempt that is not the last one.
C21_DelayDoublesPlusJitter ==
    rPc = "wait" =>
        /\ attempt < maxRetries - 1
        /\ waits = attempt + 1
        /\ lastDelay - InitialDelayMs * Doubled(attempt) \in 0 .. MaxJitterMs - 1

\* the third wait of a call, with a jitter above zero
C21_Witness ==
    /\ rPc = "wait"
    /\ attempt = 2
    /\ lastDelay > 4 * InitialDelayMs
    /\ lastDelay < 4 * InitialDelayMs + MaxJitterMs

(***************************************************************************)
(* The extraction of the generated text from the AI response.  A response  *)
(* is described by what its properties hold:                               *)
(*   text    what the function response.text() returns; NoText when        *)
(*           response.text is no function                                  *)
(*   cand    response.candidates && response.candidates[0]                 *)
(*   parts   candidates[0].content.parts[0].text                           *)
(*   content candidates[0].content.text                                    *)
(*   output  response.output.text                                          *)
(* A text is a sequence of tokens; <<>> is the empty string.               *)
(***************************************************************************)
\* "<fence>" stands for three backquotes and "<nl>" for a line feed
FenceTokens == {"<fence>json<nl>", "<fence>json", "<fence><nl>", "<fence>"}

\* the text each place of a response may hold
TextAt(place) == {NoText, <<>>, <<"<fence>json<nl>", place, " ", "<fence>">>}

Responses ==
    {NoResponse} \cup
    { [present |-> TRUE, text |-> t, cand |-> c, parts |-> p, content |-> ct, output |-> o] :
        t \in TextAt("from text()"), c \in BOOLEAN, p \in TextAt("from parts[0].text"),
        ct \in TextAt("from content.text"), o \in TextAt("from output.text") }

\* a response without candidates[0] has none of its texts
WellShaped(response) ==
    ~response.cand => (response.parts = NoText /\ response.content = NoText)

\* a ?? b
Nullish(a, b) == IF a # NoText THEN a ELSE b

\* String(text).replace(/<fence>(?:json)?\n?/g, "").trim()
stripFences(t) == trim(SelectSeq(t, LAMBDA token : token \notin FenceTokens))

Member(key, v) == IF v = NoText THEN <<>> ELSE <<key>> \o v
\* JSON.stringify(response)
Stringify(response) ==
    <<"{">>
    \o (IF response.cand
          THEN <<"candidates:[{content:{">> \o Member("parts:[{text:", response.parts)
               \o Member("text:", response.content) \o <<"}}]">>
          ELSE <<>>)
    \o Member("output:{text:", response.output) \o <<"}">>
\* String(response) of an object
ObjectToString(response) == <<"[object Object]">>

\* if (typeof response.text === "function") ... else if (candidates[0]) ...
\* else if (response.output?.text) ... else <the fallback>
extractText(response, fallback) ==
    IF response.text # NoText THEN response.text
    ELSE IF response.cand THEN Nullish(response.parts, Nullish(response.content, <<>>))
    ELSE IF response.output # NoText /\ response.output # <<>> THEN response.output
    ELSE fallback

\* typeof response.text === "function" ? response.text() : String(response)
textOrString(response) ==
    IF response.text # NoText THEN response.text ELSE ObjectToString(response)

\* the workflow op has its response: the extraction ends with a text or raises
Extracted(q, op, t) == [Return([q EXCEPT !.op = op], "text") EXCEPT !.text = stripFences(t)]
ExtractRaises(q, op, cause) == Fail([q EXCEPT !.op = op], "raised", cause)

\* the scheduled job: const response = res?.response ?? res ... cleanedText
generateIndustryInsights_Extract(r) ==
    /\ req[r].pc = "response"
    /\ req' = [req EXCEPT ![r] =
            IF ~req[r].response.present
              THEN ExtractRaises(@, "generateIndustryInsights", <<"No response from AI model">>)
              ELSE Extracted(@, "generateIndustryInsights",
                             extractText(@.response, Stringify(@.response)))]
    /\ UNCHANGED <<users, insights, job, quizVars, retryVars, env>>

\* generateAIInsights: result.response ?? result; text; cleanedText
generateAIInsights_Extract(r) ==
    /\ req[r].pc = "response"
    /\ req' = [req EXCEPT ![r] =
            IF ~req[r].response.present
              THEN ExtractRaises(@, "generateAIInsights", <<"TypeError">>)
              ELSE Extracted(@, "generateAIInsights", textOrString(@.response))]
    /\ UNCHANGED <<users, insights, job, quizVars, retryVars, env>>

\* improveWithAI: const resp = result?.response ?? result ... improvedContent
improveWithAI_Extract(r) ==
    /\ req[r].pc = "response"
    /\ req' = [req EXCEPT ![r] =
            IF ~req[r].response.present
              THEN ExtractRaises(@, "improveWithAI", <<"No response from AI model">>)
              ELSE Extracted(@, "improveWithAI",
                             extractText(@.response, ObjectToString(@.response)))]
    /\ UNCHANGED <<users, insights, job, quizVars, retryVars, env>>

\* generateQuiz: const response = result?.response ?? result ... cleanedText
generateQuiz_Extract(r) ==
    /\ req[r].pc = "response"
    /\ req' = [req EXCEPT ![r] =
            IF ~req[r].response.present
              THEN ExtractRaises(@, "generateQuiz", <<"No response from AI model">>)
              ELSE Extracted(@, "generateQuiz",
                             extractText(@.response, Stringify(@.response)))]
    /\ UNCHANGED <<users, insights, job, quizVars, retryVars, env>>

\* saveQuizResult: let tipText = ""; if (tipResp) { ... }; improvementTip
saveQuizResult_Extract(r) ==
    /\ req[r].pc = "response"
    /\ req' = [req EXCEPT ![r] =
            IF ~req[r].response.present
              THEN Extracted(@, "saveQuizResult", <<>>)
              ELSE Extracted(@, "saveQuizResult",
                             extractText(@.response, Stringify(@.response)))]
    /\ UNCHANGED <<users, insights, job, quizVars, retryVars, env>>

ExtractNext(r) ==
    \/ generateIndustryInsights_Extract(r)
    \/ generateAIInsights_Extract(r)
    \/ improveWithAI_Extract(r)
    \/ generateQuiz_Extract(r)
    \/ saveQuizResult_Extract(r)

\* one workflow holds the response the AI call resolved to
InitExtract ==
    /\ RetryInit
    /\ env = QuietEnv
    /\ users = <<>>
    /\ insights = <<>>
    /\ resumes = <<>>
    /\ assessments = <<>>
    /\ \E response \in {x \in Responses : WellShaped(x)} :
        req = [r \in Slots |->
                IF r \in FirstSlot
                  THEN [Idle EXCEPT !.pc = "response", !.response = response]
                  ELSE Idle]
    /\ job = JobIdle

SpecExtract == InitExtract /\ [][\E r \in FirstSlot : ExtractNext(r)]_vars

\* the text the first of the four places of a response that has one holds
FirstText(response) ==
    IF response.text # NoText THEN response.text
    ELSE IF response.parts \notin {NoText, <<>>} THEN response.parts
    ELSE IF response.content \notin {NoText, <<>>} THEN response.content
    ELSE IF response.output \notin {NoText, <<>>} THEN response.output
    ELSE NoText

\* C22: in every AI workflow the extraction yields the generated text of the
\* first of the four places (text(), candidates[0].content.parts[0].text,
\* candidates[0].content.text, output.text) that holds one, and the whole
\* response serialized when none of the four yields text.
C22_ExtractsFromEveryShape ==
    \A r \in Slots :
        (req[r].pc = "done" /\ req[r].response.present)
        => /\ req[r].result = "ok"
           /\ req[r].text = stripFences(IF FirstText(req[r].response) # NoText
                                          THEN FirstText(req[r].response)
                                          ELSE Stringify(req[r].response))

(***************************************************************************)
(* The normalisation of demandLevel and marketOutlook, on demand and in    *)
(* the scheduled job, for every way the AI may fill in the two fields.     *)
(***************************************************************************)
\* a field of the parsed object that is missing
Missing == "undefined"
WithField(object, key, v) ==
    IF v = Missing THEN Without(object, {key}) ELSE [object EXCEPT ![key] = v]

\* the objects JSON.parse may give: each of the two fields missing, empty,
\* in lower case, in upper case or in mixed case
EnumAnswers ==
    { WithField(WithField(WellFormed, "demandLevel", d), "marketOutlook", o) :
        d \in {Missing, "", "high", "HIGH", "Very High"},
        o \in {Missing, "", "positive", "POSITIVE"} }

\* the AI answers every call of the run with the same object
InitNormalize ==
    /\ RetryInit
    /\ \E answer \in EnumAnswers : env = [answers |-> {answer}, elapsed |-> {0}]
    /\ users \in InitialUsers
    /\ insights \in InitialInsights
    /\ resumes = <<>>
    /\ assessments = <<>>
    /\ req = [r \in Slots |-> Idle]
    /\ job = JobIdle

\* dashboard reads and runs of the job, the AI answering with one object
SpecNormalize ==
    InitNormalize /\ [][JobNext \/ (\E r \in FirstSlot : DashboardRequest(r))]_vars

EnumFields == {"demandLevel", "marketOutlook"}
\* the upper-case form of each value the AI may give
UpperCaseOf ==
    [high |-> "HIGH", HIGH |-> "HIGH", positive |-> "POSITIVE", POSITIVE |-> "POSITIVE"]
    @@ ("Very High" :> "VERY HIGH")
DefaultOf == [demandLevel |-> "MEDIUM", marketOutlook |-> "NEUTRAL"]
Given(answer, k) == k \in DOMAIN answer /\ answer[k] # ""

\* what generateAIInsights returned for the answer of the AI
NormalizedOnDemand(answer, fields) ==
    /\ DOMAIN fields = DOMAIN answer \cup EnumFields
    /\ \A k \in DOMAIN fields :
        fields[k] = IF k \notin EnumFields THEN answer[k]
                    ELSE IF Given(answer, k) THEN UpperCaseOf[answer[k]]
                    ELSE DefaultOf[k]
    /\ NormalizeOnDemand(fields) = fields

\* what the job holds for the answer of the AI
NormalizedInJob(answer, fields) ==
    /\ DOMAIN fields = DOMAIN answer
    /\ \A k \in DOMAIN fields :
        fields[k] = IF k \in EnumFields /\ Given(answer, k) THEN UpperCaseOf[answer[k]]
                    ELSE answer[k]
    /\ NormalizeInJob(fields) = fields

C23_State ==
    \A answer \in env.answers :
        /\ \A r \in Slots :
            (req[r].op = "getIndustryInsights" /\ req[r].pc = "create")
            => NormalizedOnDemand(answer, req[r].fields)
        /\ job.pc = "update" => NormalizedInJob(answer, job.fields)

\* the update of the job leaves a column alone whose field the AI left out
C23_Step ==
    job.pc = "update" =>
        \A answer \in env.answers :
            \A k \in EnumFields \ DOMAIN answer, i \in DOMAIN insights :
                i \in DOMAIN insights' /\ insights'[i].fields[k] = insights[i].fields[k]

\* C23: generateAIInsights returns demandLevel and marketOutlook in upper case,
\* and MEDIUM / NEUTRAL when the field is absent or empty; the scheduled job
\* puts a present field into upper case and applies no default, so that an
\* absent field is not written; normalising again changes nothing on either
\* path.
C23_EnumsNormalized == []C23_State /\ [][C23_Step]_vars

\* the AI left out demandLevel and gave marketOutlook in lower case: the
\* dashboard read holds MEDIUM and POSITIVE while the job holds POSITIVE and
\* no demandLevel
C23_Witness ==
    /\ \E answer \in env.answers :
        answer = WithField(WithField(WellFormed, "demandLevel", Missing),
                           "marketOutlook", "positive")
    /\ \E r \in Slots :
        /\ req[r].op = "getIndustryInsights" /\ req[r].pc = "create"
        /\ req[r].fields.demandLevel = "MEDIUM" /\ req[r].fields.marketOutlook = "POSITIVE"
    /\ job.pc = "update"
    /\ "demandLevel" \notin DOMAIN job.fields /\ job.fields.marketOutlook = "POSITIVE"

(***************************************************************************)
(* The on-demand resolver over rows whose nextUpdate may have passed.      *)
(***************************************************************************)
\* the columns of a row stored more than a week before the run
StaleFields ==
    [SeededFields EXCEPT !.lastUpdated = Now - WeekMs - 1, !.nextUpdate = Now - 1]

StoredInsights ==
    { rows \in UNION { [1 .. n -> [industry : Industries, data : {"seeded"},
                                   fields : {SeededFields, StaleFields}]]
                       : n \in 0 .. NumIndustries } :
        \A i, k \in DOMAIN rows : i < k =>
            \E a, b \in 1 .. NumIndustries :
                a < b /\ rows[i].industry = IndustryNames[a] /\ rows[k].industry = IndustryNames[b] }

InitResolver ==
    /\ RetryInit
    /\ env = QuietEnv
    /\ users \in InitialUsers
    /\ insights \in StoredInsights
    /\ resumes = <<>>
    /\ assessments = <<>>
    /\ req = [r \in Slots |-> Idle]
    /\ job = JobIdle

\* profile updates and dashboard reads, one request at a time
SpecResolver == InitResolver /\ [][\E r \in FirstSlot : InsightRequest(r)]_vars

\* the industry of the profile the request of slot r reads
ProfileIndustry(r) ==
    LET i == FindUserByClerkId(users, req[r].uid)
    IN  IF i = 0 THEN NoIndustry ELSE users[i].industry

C24_Step(r) ==
    /\ \* getIndustryInsights reads a profile whose industry has a row
       (req[r].op = "getIndustryInsights" /\ req[r].pc = "findUser"
            /\ RowsOf(ProfileIndustry(r)) # {})
       => /\ req'[r].pc = "done"
          /\ \/ req'[r].result = "ok" /\ req'[r].value = "insight"
             \/ req'[r].cause = StorageError
          /\ req'[r].ai = 0
          /\ insights' = insights
    /\ \* the transaction of updateUser looks for the row and it is there
       (req[r].op = "updateUser" /\ req[r].pc = "txFind" /\ RowsOf(req[r].industry) # {})
       => /\ \/ req'[r].pc = "txUpdate" /\ ~req'[r].wrote
             \/ req'[r].pc = "done" /\ req'[r].cause = StorageError
          /\ req'[r].ai = 0
          /\ insights' = insights
    /\ \* the transaction of updateUser ends, having found the row
       (req[r].op = "updateUser" /\ req[r].pc = "txUpdate" /\ ~req[r].wrote)
       => /\ req'[r].pc = "done"
          /\ req'[r].ai = 0
          /\ insights' = insights
    /\ \* the AI is called in the generation steps alone
       req'[r].ai > req[r].ai
       => /\ req[r].pc \in {"generate", "txGenerate"}
          /\ RowsOf(req[r].industry) = {}

\* C24: the on-demand resolver calls the AI generator only when the industry
\* of the user has no insight row: when the row exists, updateUser and
\* getIndustryInsights return it without an AI call and leave every field of
\* every insight row as it was, lastUpdated and nextUpdate included, also
\* when nextUpdate has passed.
C24_ExistingRowIsReturned == [][\A r \in FirstSlot : C24_Step(r)]_vars

\* a profile was put on an industry whose row is stale, and the dashboard
\* read that followed returned the row: no AI call, the row as stored
C24_Witness ==
    \E r \in Slots, i \in DOMAIN users, k \in DOMAIN insights :
        /\ req[r].op = "getIndustryInsights" /\ req[r].pc = "done"
        /\ req[r].result = "ok" /\ req[r].value = "insight" /\ req[r].ai = 0
        /\ users[i].clerkUserId = req[r].uid /\ users[i].viaUpdate
        /\ insights[k].industry = users[i].industry
        /\ insights[k].data = "seeded" /\ insights[k].fields = StaleFields
        /\ insights[k].fields.nextUpdate < Now

(***************************************************************************)
(* Profile updates in a database without users.                            *)
(***************************************************************************)
UpdateUserRequest(r) ==
    \/ updateUser_Begin(r)
    \/ updateUser_FindUser(r)
    \/ updateUser_CreateUser(r)
    \/ updateUser_TxFind(r)
    \/ updateUser_TxGenerate(r)
    \/ updateUser_TxCreate(r)
    \/ updateUser_TxUpdate(r)
    \/ Finish(r)

InitProfile ==
    /\ RetryInit
    /\ env = QuietEnv
    /\ users = <<>>
    /\ insights \in InitialInsights
    /\ resumes = <<>>
    /\ assessments = <<>>
    /\ req = [r \in Slots |-> Idle]
    /\ job = JobIdle

\* the first profile updates of a deployment: every User row there is was
\* created by updateUser
SpecProfile == InitProfile /\ [][\E r \in Slots : UpdateUserRequest(r)]_vars

\* the errors that end the transaction of updateUser after it began
RollbackCauses ==
    {<<"SyntaxError">>, <<"TypeError">>, <<"503">>, <<"API key not valid">>,
     ValidationError, <<"P2002">>, UserUpdateError}

\* after a rollback the User row of the caller is stored, without an
\* industry unless an update succeeded for it
C25_State ==
    \A r \in Slots :
        (req[r].op = "updateUser" /\ req[r].pc = "done" /\ req[r].cause \in RollbackCauses)
        => /\ req[r].result = "Failed to update profile"
           /\ \E i \in DOMAIN users :
                /\ users[i].clerkUserId = req[r].uid
                /\ ~users[i].viaUpdate => users[i].industry = NoIndustry

C25_Step(r) ==
    /\ \* the User row is created outside the transaction, without an industry
       (req[r].op = "updateUser" /\ req[r].pc = "createUser" /\ req'[r] # req[r]
            /\ users' # users)
       => /\ users' = Append(users, [clerkUserId |-> req[r].uid, industry |-> NoIndustry,
                                     profile |-> "", viaUpdate |-> FALSE])
          /\ insights' = insights
          /\ req'[r].pc = "txFind" /\ ~req'[r].wrote
    /\ \* the transaction fails: no User row is removed or changed
       (req[r].op = "updateUser" /\ req[r].pc \in {"txFind", "txGenerate", "txCreate", "txUpdate"}
            /\ req'[r].pc = "done" /\ req'[r].result # "ok")
       => /\ req'[r].result = "Failed to update profile"
          /\ users' = users

\* C25: updateUser creates the User row before and outside its transaction:
\* when the user did not exist and the transaction is rolled back afterwards
\* (the generation or the creation of the insight failed), the new User row
\* stays stored without an industry and the action raises "Failed to update
\* profile".
C25_NewUserSurvivesRollback == []C25_State /\ [][\A r \in Slots : C25_Step(r)]_vars

\* the first profile update of the database failed at the AI call: the
\* caller's row is the one row of User and has no industry
C25_Witness ==
    \E r \in Slots :
        /\ req[r].op = "updateUser" /\ req[r].pc = "done"
        /\ req[r].result = "Failed to update profile" /\ req[r].cause = <<"503">>
        /\ req[r].ai = 1
        /\ Len(users) = 1
        /\ users[1].clerkUserId = req[r].uid
        /\ users[1].industry = NoIndustry /\ ~users[1].viaUpdate
        /\ RowsOf(req[r].industry) = {}

(***************************************************************************)
(* The middleware.  A request it handles has route "protected" or          *)
(* "public"; while it awaits checkUser() the request is at the steps of    *)
(* checkUser, and input names the text of checkUser that runs.             *)
(***************************************************************************)
Routes == {"protected", "public"}

\* catch (error) { console.error('Middleware checkUser error:', error) }
CheckUserErrorBlocks(q) ==
    [q EXCEPT !.op = "middleware", !.result = "error", !.value = "", !.caught = q.cause]
CheckUserErrorLogged(q) ==
    [q EXCEPT !.op = "middleware", !.result = "ok", !.value = "next", !.caught = q.cause]

\* const { userId } = await auth(); the two tests on userId and the route
middleware_Begin(r) ==
    /\ req[r].op = "idle"
    /\ \E userId \in ClerkIds \cup {NoId}, route \in Routes :
        LET q == [Idle EXCEPT !.op = "middleware", !.uid = userId, !.route = route]
        IN  req' = [req EXCEPT ![r] =
                IF userId = NoId /\ route = "protected"
                  THEN Return(q, "redirectToSignIn")
                  ELSE IF userId # NoId /\ route = "protected"
                    THEN [q EXCEPT !.pc = "checkUser"]
                    ELSE Return(q, "next")]
    /\ UNCHANGED <<users, insights, job, quizVars, retryVars, env>>

\* await checkUser(): const user = await currentUser(); if (!user) return null
middleware_CheckUser(r) ==
    /\ req[r].op = "middleware" /\ req[r].pc = "checkUser"
    /\ \E user \in {req[r].uid, NoId}, text \in CheckUserTexts :
        LET q == [req[r] EXCEPT !.op = "checkUser", !.input = text]
        IN  req' = [req EXCEPT ![r] =
                IF user = NoId THEN Return(q, "null") ELSE [q EXCEPT !.pc = "findUser"]]
    /\ UNCHANGED <<users, insights, job, quizVars, retryVars, env>>

\* checkUser() has returned or raised: return NextResponse.next()
middleware_Next(r) ==
    /\ req[r].op = "checkUser" /\ req[r].pc = "done" /\ req[r].route \in Routes
    /\ LET q == req[r]
       IN  req' = [req EXCEPT ![r] =
               IF q.result = "ok"
                 THEN [q EXCEPT !.op = "middleware", !.payload = q.value, !.value = "next"]
                 ELSE CheckUserErrorLogged(q)]
    /\ UNCHANGED <<users, insights, job, quizVars, retryVars, env>>

\* the response of the middleware is delivered
middleware_Finish(r) ==
    /\ req[r].op = "middleware" /\ req[r].pc = "done"
    /\ req' = [req EXCEPT ![r] = Idle]
    /\ UNCHANGED <<users, insights, job, quizVars, retryVars, env>>

MiddlewareRequest(r) ==
    \/ middleware_Begin(r)
    \/ middleware_CheckUser(r)
    \/ checkUser_FindUser(r)
    \/ checkUser_CreateUser(r)
    \/ middleware_Next(r)
    \/ middleware_Finish(r)

\* page requests passing the middleware
SpecMiddleware == Init /\ [][\E r \in Slots : MiddlewareRequest(r)]_vars

\* C26: on a protected route a request without a user identifier is
\* redirected to sign-in and checkUser is never invoked for it; a request
\* with a user identifier always proceeds to the route, whether checkUser
\* returned a user, returned null or raised.
C26_ProtectedRoute ==
    \A r \in Slots :
        req[r].route = "protected" =>
            /\ req[r].uid = NoId =>
                /\ req[r].op = "middleware" /\ req[r].pc = "done"
                /\ req[r].value = "redirectToSignIn"
                /\ req[r].input = "" /\ ~req[r].db
            /\ (req[r].uid # NoId /\ req[r].op = "middleware" /\ req[r].pc = "done") =>
                /\ req[r].result = "ok" /\ req[r].value = "next"
                /\ req[r].input \in CheckUserTexts
                /\ \/ req[r].caught = NoError /\ req[r].payload \in {"user", "null"}
                   \/ req[r].caught # NoError /\ req[r].payload = ""

\* one request without identifier was redirected; another, with identifier,
\* went on to its route after checkUser raised
C26_Witness ==
    \E r, o \in Slots :
        /\ req[r].route = "protected" /\ req[r].uid = NoId
        /\ req[r].pc = "done" /\ req[r].value = "redirectToSignIn"
        /\ req[o].route = "protected" /\ req[o].uid # NoId
        /\ req[o].op = "middleware" /\ req[o].pc = "done"
        /\ req[o].value = "next" /\ req[o].caught = StorageError

====
